---- MODULE Spec2Model ----
(***************************************************************************)
(* A model of the ao3_backup crawl queue (src/ao3_backup/db.py) and of the *)
(* auth and update worker loops (src/ao3_backup/workers/).                 *)
(*                                                                         *)
(* Time is counted in seconds, at the resolution of the database clock,    *)
(* and advances in steps of 300 s, the smallest requeue delay the workers  *)
(* use.                                                                    *)
(***************************************************************************)
EXTENDS Integers, Sequences, FiniteSets, TLC

\* ------------------------------------------------------------------ bounds

MaxId == 2
MaxTicks == 1
MaxAttempts == 1
MaxLog == 1
MaxBatch == 2
MaxEnq == 2

Ids == 1..MaxId
Workers == {"w1", "w2"}
Threads == {"t1", "t2", "t3"}
Modes == {"auth", "update"}
\* priority of enqueue_ids and enqueue_range when the caller gives none
DefaultPriority == 100
Priorities == {50, DefaultPriority}
\* "sqlite" stands for every engine that is not PostgreSQL: claim_batch treats
\* them alike.
Dialects == {"sqlite", "postgresql"}
BatchSizes == 1..MaxBatch
Delays == {300}
Msgs == {"NULL", "boom"}

\* SQL NULL / Python None
NULL == "NULL"

VARIABLES
    dialect,    \* _dialect(db_session): the engine the process runs against
    now,        \* wall clock, seconds
    queue,      \* the queue table: a set of rows
    fetch_log,  \* the fetch_log table: rows in insertion order
    sess,       \* per caller: a claim_batch call between its SELECT and its UPDATE
    works,      \* the works table (WorkRecord rows)
    store,      \* the content store: the ids whose html.gz blob is written
    creds,      \* CredentialManager.records of the auth worker process
    batch,      \* per worker loop: the claimed ids not yet handled
    picked,     \* what the last CredentialManager.pick() returned
    thr,        \* per pool thread: its position in the call it is executing
    mono,       \* time.monotonic(), in ticks
    bucket,     \* per limiter: the token bucket's fields
    admitted,   \* per limiter: when its last Capacity + 1 calls were let through
    last_call,  \* what the last Requester.request call met and how it ended
    blocks,     \* the blocks table: rows in insertion order, id = position
    sessions,   \* the requests.Session objects the Requester's callers hold
    attached,   \* Requester.session: the attached session, or none
    by_user     \* SessionPool._by_user: the proxies the pool has cached

\* what the credential manager's callers touch
cvars == <<picked, thr>>

\* the sessions the Requester is given
svars == <<sessions, attached, by_user>>

\* what the request layer's callers touch
rvars == <<mono, bucket, admitted, last_call>>

\* what enqueue, claim, requeue and complete leave alone
wvars == <<works, store, creds, batch, cvars, rvars, blocks, svars>>

vars == <<dialect, now, queue, fetch_log, sess, works, store, creds, batch,
          picked, thr, mono, bucket, admitted, last_call, blocks, sessions,
          attached, by_user>>

\* ------------------------------------------------------------- helpers

Min(a, b) == IF a <= b THEN a ELSE b

Range(s) == {s[i] : i \in 1..Len(s)}

\* range(start, stop + 1) as a list
RECURSIVE PyRange(_, _)
PyRange(start, stop) ==
    IF start > stop THEN <<>> ELSE <<start>> \o PyRange(start + 1, stop)

SeqsUpTo(S, n) == UNION {[1..k -> S] : k \in 0..n}

IdsOf(q) == {r.id : r \in q}
RowsOf(q, i) == {r \in q : r.id = i}

\* ------------------------------------------------------------- queue table

\* Column defaults of a freshly inserted queue row.
NewRow(i, mode, priority, t) ==
    [id |-> i, mode |-> mode, priority |-> priority,
     next_attempt |-> t, attempts |-> 0,
     locked_by |-> NULL, locked_at |-> NULL]

\* (mutant) a key over (id, mode) instead of id
PkConflictIdMode(q, row) == \E r \in q : r.id = row.id /\ r.mode = row.mode

\* The primary key of queue: the id column alone.
PkConflict(q, row) == \E r \in q : r.id = row.id

\* (mutant) INSERT OR REPLACE: the new row takes the place of the old one
InsertOrReplace(q, row) == {r \in q : r.id # row.id} \cup {row}

\* INSERT OR IGNORE / ON CONFLICT DO NOTHING / insert with the error swallowed
InsertOrIgnore(q, row) == IF PkConflict(q, row) THEN q ELSE q \cup {row}

RECURSIVE InsertAll(_, _, _, _, _)
InsertAll(q, ids, mode, priority, t) ==
    IF ids = <<>> THEN q
    ELSE InsertAll(InsertOrIgnore(q, NewRow(Head(ids), mode, priority, t)),
                   Tail(ids), mode, priority, t)

\* enqueue_ids: the table afterwards, and the value returned
EnqueueTable(q, ids, mode, priority, t) ==
    IF ids = <<>> THEN q ELSE InsertAll(q, ids, mode, priority, t)

EnqueueReturn(ids) == IF ids = <<>> THEN 0 ELSE Len(ids)

\* WHERE mode = :mode AND locked_by IS NULL AND next_attempt <= now
Eligible(q, mode, t) ==
    {r \in q : r.mode = mode /\ r.locked_by = NULL /\ r.next_attempt <= t}

\* (mutant) ORDER BY id ASC alone
BeforeById(a, b) == a.id < b.id

\* ORDER BY priority ASC, id ASC
Before(a, b) ==
    a.priority < b.priority \/ (a.priority = b.priority /\ a.id < b.id)

RECURSIVE OrderBy(_)
OrderBy(S) ==
    IF S = {} THEN <<>>
    ELSE LET m == CHOOSE r \in S : \A o \in S : ~Before(o, r)
         IN  <<m>> \o OrderBy(S \ {m})

\* LIMIT :lim
Limit(s, lim) == SubSeq(s, 1, Min(lim, Len(s)))

\* The candidate ids of one claim_batch, in the order of the SELECT
Candidates(q, mode, t, lim) ==
    LET rows == Limit(OrderBy(Eligible(q, mode, t)), lim)
    IN  [k \in 1..Len(rows) |-> rows[k].id]

\* (mutant) the UPDATE without its locked_by IS NULL guard
LockRowsUnguarded(q, ids, w, t) ==
    {IF r.id \in ids
     THEN [r EXCEPT !.locked_by = w, !.locked_at = t]
     ELSE r : r \in q}

\* UPDATE queue SET locked_by, locked_at WHERE id IN ids AND locked_by IS NULL
LockRows(q, ids, w, t) ==
    {IF r.id \in ids /\ r.locked_by = NULL
     THEN [r EXCEPT !.locked_by = w, !.locked_at = t]
     ELSE r : r \in q}

\* (mutant) requeue that forgets the delay
RequeueRowsNoDelay(q, i, delay, t) ==
    {IF r.id = i
     THEN [r EXCEPT !.attempts = @ + 1, !.locked_by = NULL, !.locked_at = NULL,
                    !.next_attempt = t]
     ELSE r : r \in q}

\* (mutant) requeue that puts back a row it does not find
RequeueRowsInsert(q, i, delay, t) ==
    IF \E r \in q : r.id = i
    THEN {IF r.id = i
          THEN [r EXCEPT !.attempts = @ + 1, !.locked_by = NULL,
                         !.locked_at = NULL, !.next_attempt = t + delay]
          ELSE r : r \in q}
    ELSE q \cup {[NewRow(i, "auth", DefaultPriority, t + delay)
                    EXCEPT !.attempts = 1]}

\* (mutant) requeue that gives an id up after MaxAttempts failed attempts
RequeueRowsGiveUp(q, i, delay, t) ==
    {IF r.id = i
     THEN [r EXCEPT !.attempts = @ + 1, !.locked_by = NULL, !.locked_at = NULL,
                    !.next_attempt = t + delay]
     ELSE r : r \in {x \in q : x.id # i \/ x.attempts < MaxAttempts}}

\* (mutant) requeue that leaves the lock in place
RequeueRowsKeepLock(q, i, delay, t) ==
    {IF r.id = i
     THEN [r EXCEPT !.attempts = @ + 1, !.next_attempt = t + delay]
     ELSE r : r \in q}

\* requeue's UPDATE ... WHERE id = :id
RequeueRows(q, i, delay, t) ==
    {IF r.id = i
     THEN [r EXCEPT !.attempts = @ + 1, !.locked_by = NULL, !.locked_at = NULL,
                    !.next_attempt = t + delay]
     ELSE r : r \in q}

\* complete's DELETE FROM queue WHERE id = :id
DeleteRows(q, i) == {r \in q : r.id # i}

LogRow(i, worker, outcome, error) ==
    [ao3_id |-> i, worker |-> worker, outcome |-> outcome, error |-> error]

\* ------------------------------------------------------------ token bucket

Capacity == 2
TicksPerToken == 2

\* window_seconds, in ticks: a token is refilled every TicksPerToken ticks
Window == Capacity * TicksPerToken

\* the ThreadSafeSessionProxy objects, one per credential in the session pool
Proxies == {"proxy", "proxy2"}

\* the Requester's bucket and each ThreadSafeSessionProxy's bucket
Limiters == {"requester"} \cup Proxies

\* Requester.__init__ / ThreadSafeSessionProxy.__init__ followed by
\* set_token(token): a full bucket. tokens counts 1/Window of a token, so
\* that one token is Window and a tick refills Capacity.
NewBucket(l, t) ==
    [token |-> IF l \in Proxies THEN "token" ELSE NULL,
     tokens |-> Capacity * Window, last |-> t]

\* no request call made yet
NoCall == [attempts |-> 0]

\* a requests.Session() as the library builds it: its own adapters and its
\* default headers; no flag of the Requester on it
NewSession ==
    [adapters |-> "requests", installs |-> 0, header_installs |-> 0,
     _ao3_adapters_installed |-> FALSE, _ao3_headers_installed |-> FALSE,
     headers |-> [h \in {"User-Agent", "Accept"} |->
                    IF h = "User-Agent" THEN "python-requests" ELSE "*/*"]]

\* the sessions a caller holds: s1 as built, s2 with the caller's own
\* adapters mounted, its own User-Agent and no Accept header
Sessions == {"s1", "s2"}

CallerSession(s) ==
    IF s = "s1" THEN NewSession
    ELSE [NewSession EXCEPT
            !.adapters = "caller",
            !.headers = [h \in {"User-Agent", "Accept"} |->
                           IF h = "User-Agent" THEN "custom" ELSE NULL]]

\* a thread of the fetch pool outside ensure_session
ThreadIdle == [pc |-> "idle"]

Idle == [pc |-> "idle"]

\* The ids of the rows an UPDATE ... RETURNING id statement of w updated
AtomicReturn(q, q2, w) == {r.id : r \in {x \in q2 : x.locked_by = w} \ q}

\* ------------------------------------------------------------------- Init

\* create_all() on an empty database, an empty content store, no worker started
InitDb ==
    /\ dialect \in Dialects
    /\ now = 0
    /\ queue = {}
    /\ fetch_log = <<>>
    /\ sess = [w \in Workers |-> Idle]
    /\ works = {}
    /\ store = {}
    /\ batch = [w \in Workers |-> {}]
    /\ picked = NULL
    /\ thr = [t \in Threads |-> ThreadIdle]
    /\ mono = 0
    /\ bucket = [l \in Limiters |-> NewBucket(l, 0)]
    /\ admitted = [l \in Limiters |-> <<>>]
    /\ last_call = NoCall
    /\ blocks = <<>>
    /\ sessions = [s \in Sessions |-> CallerSession(s)]
    /\ attached = NULL
    /\ by_user = {}

\* the queue API alone: no CredentialManager is constructed
Init == InitDb /\ creds = <<>>

\* ---------------------------------------------------------------- actions

Tick ==
    /\ now < 300 * MaxTicks
    /\ now' = now + 300
    /\ UNCHANGED <<dialect, queue, fetch_log, sess, wvars>>

\* enqueue_ids(db_session, ids, mode, priority) in a session of its own
DoEnqueue(ids, mode, priority) ==
    /\ UNCHANGED <<dialect, now, fetch_log, sess, wvars>>
    /\ queue' = EnqueueTable(queue, ids, mode, priority, now)

EnqueueIds ==
    \E ids \in SeqsUpTo(Ids, MaxEnq), mode \in Modes, priority \in Priorities :
        DoEnqueue(ids, mode, priority)

\* enqueue_range(db_session, start, stop, mode) with the default priority
EnqueueRange ==
    \E start \in Ids, stop \in Ids, mode \in Modes :
        DoEnqueue(PyRange(start, stop), mode, DefaultPriority)

\* claim_batch on PostgreSQL: one UPDATE ... WHERE id IN (SELECT ... FOR UPDATE
\* SKIP LOCKED LIMIT) RETURNING id. The call returns the ids of the rows it
\* updated (RETURNING promises no order).
ClaimAtomicDb(w, lim, mode) ==
    /\ dialect = "postgresql"
    /\ sess[w].pc = "idle"
    /\ UNCHANGED <<dialect, now, fetch_log, sess>>
    /\ queue' = LockRows(queue, Range(Candidates(queue, mode, now, lim)), w, now)

\* ... called through the API, the returned ids going to the caller
ClaimAtomic(w, lim, mode) == ClaimAtomicDb(w, lim, mode) /\ UNCHANGED wvars

\* claim_batch elsewhere, first statement: the SELECT of the candidate ids.
\* With no candidate the call returns [] at once.
ClaimSelect(w, lim, mode) ==
    /\ dialect # "postgresql"
    /\ sess[w].pc = "idle"
    /\ UNCHANGED <<dialect, now, queue, fetch_log, wvars>>
    /\ LET ids == Candidates(queue, mode, now, lim)
       IN  sess' = IF ids = <<>> THEN sess
                   ELSE [sess EXCEPT ![w] =
                           [pc |-> "selected", ids |-> ids]]

\* claim_batch elsewhere, second statement: the guarded UPDATE; the call then
\* returns the ids of its SELECT.
ClaimUpdateDb(w) ==
    /\ sess[w].pc = "selected"
    /\ UNCHANGED <<dialect, now, fetch_log>>
    /\ sess' = [sess EXCEPT ![w] = Idle]
    /\ queue' = LockRows(queue, Range(sess[w].ids), w, now)

\* ... called through the API
ClaimUpdate(w) == ClaimUpdateDb(w) /\ UNCHANGED wvars

\* requeue(db_session, id_, delay_seconds, error_msg) in a session of its own
DoRequeue(i, delay, msg) ==
    /\ \A r \in RowsOf(queue, i) : r.attempts < MaxAttempts
    /\ msg # NULL => Len(fetch_log) < MaxLog
    /\ UNCHANGED <<dialect, now, sess, wvars>>
    /\ fetch_log' = IF msg # NULL
                    THEN Append(fetch_log, LogRow(i, "system", "error", msg))
                    ELSE fetch_log
    /\ queue' = RequeueRows(queue, i, delay, now)

Requeue == \E i \in Ids, delay \in Delays, msg \in Msgs : DoRequeue(i, delay, msg)

\* complete(db_session, ao3_id) in a session of its own
DoComplete(i) ==
    /\ UNCHANGED <<dialect, now, fetch_log, sess, wvars>>
    /\ queue' = DeleteRows(queue, i)

Complete == \E i \in Ids : DoComplete(i)

Claim ==
    \E w \in Workers, lim \in BatchSizes, mode \in Modes :
        ClaimAtomic(w, lim, mode) \/ ClaimSelect(w, lim, mode)

ClaimFinish == \E w \in Workers : ClaimUpdate(w)

Next ==
    \/ Tick
    \/ EnqueueIds
    \/ EnqueueRange
    \/ Claim
    \/ ClaimFinish
    \/ Requeue
    \/ Complete

Spec == Init /\ [][Next]_vars

\* ================================================================= workers
\* ------------------------------------------------------- python outcomes

\* A call either returns a value or raises; raised names the exception.
Return(v) == [raised |-> NULL, value |-> v]
Raise(e) == [raised |-> e]

\* `if x:` on an Optional[str]
Truthy(x) == x # NULL /\ x # ""

\* ------------------------------------------------------------- FetchResult

\* The fields of the frozen dataclass FetchResult.
FetchResultFields ==
    {"ao3_id", "authed", "outcome", "http_status_code", "html", "final_url",
     "err", "user", "sess", "meta"}

\* (mutant) a FetchResult that takes any keyword
FetchResultLenient(kwargs) == Return([type |-> "FetchResult", fields |-> kwargs])

\* FetchResult(**kwargs): the generated __init__ raises TypeError on a keyword
\* that is no field, and on a missing field.
FetchResult(kwargs) ==
    IF DOMAIN kwargs = FetchResultFields
    THEN Return([type |-> "FetchResult", fields |-> kwargs])
    ELSE Raise("TypeError")

\* a, b, c, d, e = v: only an iterable of n items unpacks; a FetchResult is
\* no iterable.
Unpack(v, n) ==
    IF v.type = "tuple" /\ Len(v.items) = n THEN Return(v.items)
    ELSE Raise("TypeError")

\* ---------------------------------------------------------------- remote

\* What the archive and the network do to one fetch: whether a login succeeds,
\* an exception the requester raises, or the response's status, whether its
\* final url is the login page, and the marker text its body holds; and
\* whether the metadata extraction that follows returns (meta_ok) or raises.
Statuses == {200, 403, 404, 500}
Markers == {"none", "restricted", "unrevealed"}
NetExceptions == {"RateLimitedException", "NetworkException"}

\* A failing extraction is drawn for the 200 answers that follow a login that
\* succeeded.
Nets ==
    [login_ok : BOOLEAN, exc : {NULL}, status : Statuses,
     to_login : BOOLEAN, marker : Markers, meta_ok : {TRUE}]
    \cup
    [login_ok : {TRUE}, exc : {NULL}, status : {200},
     to_login : BOOLEAN, marker : Markers, meta_ok : {FALSE}]
    \cup
    [login_ok : BOOLEAN, exc : NetExceptions, status : {0},
     to_login : {FALSE}, marker : {"none"}, meta_ok : {TRUE}]

\* Texts (a page body, a url) are sequences of words; `a in b` on two texts
\* holds when a occurs in b as a run of consecutive words.
Contains(sub, text) ==
    \E k \in 0..Len(text) - Len(sub) : SubSeq(text, k + 1, k + Len(sub)) = sub

\* str.lower() of one word
LowerWord(w) ==
    CASE w \in {"This", "THIS"} -> "this"
      [] w = "WORK" -> "work"
      [] w = "IS" -> "is"
      [] w = "UNREVEALED" -> "unrevealed"
      [] w \in {"Log", "LOG"} -> "log"
      [] w = "IN" -> "in"
      [] w = "TO" -> "to"
      [] w = "ACCESS" -> "access"
      [] w = "MORE" -> "more"
      [] w = "WORKS" -> "works"
      [] w = "AO3" -> "ao3"
      [] w = "Chapter" -> "chapter"
      [] OTHER -> w

\* str.lower()
PyLower(text) == [k \in 1..Len(text) |-> LowerWord(text[k])]

RESTRICTED_MARKERS ==
    << <<"This", "work", "is", "only", "available", "to", "registered",
         "users", "of", "AO3">>,
       <<"This", "work", "is", "only", "available", "to", "users", "18",
         "and", "older">>,
       <<"Log", "in", "to", "access", "more", "works">> >>

UNREVEALED_MARKERS ==
    << <<"This", "work", "is", "unrevealed">>,
       <<"This", "work", "will", "be", "revealed">> >>

\* any(m.lower() in lower for m in markers)
AnyMarker(markers, lower) ==
    \E k \in 1..Len(markers) : Contains(PyLower(markers[k]), lower)

\* (mutant) the status rules tried before the body's phrases
classify_status_first(url, status_code, text, final_url) ==
    LET lower == PyLower(text)
    IN  IF status_code = 404 THEN "not_found"
        ELSE IF Contains(<<"users", "login">>, final_url) THEN "restricted"
        ELSE IF status_code = 200 THEN "public"
        ELSE IF status_code \in {401, 403} THEN "restricted"
        ELSE IF AnyMarker(RESTRICTED_MARKERS, lower) THEN "restricted"
        ELSE IF AnyMarker(UNREVEALED_MARKERS, lower) THEN "unrevealed"
        ELSE "error"

\* classify_response(url, status_code, text, final_url); text and final_url
\* are str, so `x or ""` is x
classify_response(url, status_code, text, final_url) ==
    LET lower == PyLower(text)
    IN  IF status_code = 404 THEN "not_found"
        ELSE IF Contains(<<"users", "login">>, final_url) THEN "restricted"
        ELSE IF AnyMarker(RESTRICTED_MARKERS, lower) THEN "restricted"
        ELSE IF AnyMarker(UNREVEALED_MARKERS, lower) THEN "unrevealed"
        ELSE IF status_code = 200 THEN "public"
        ELSE IF status_code \in {401, 403} THEN "restricted"
        ELSE "error"

\* resp.text of an answer: a page with a marker or a plain work page
NetText(marker) ==
    CASE marker = "restricted" ->
            <<"Sorry", "Log", "in", "to", "access", "more", "works">>
      [] marker = "unrevealed" -> <<"This", "work", "is", "unrevealed">>
      [] OTHER -> <<"Chapter", "1">>

\* resp.url of an answer: the login page after a redirect, or the work's url
NetFinalUrl(to_login) ==
    IF to_login THEN <<"users", "login">> ELSE <<"works", "1">>

\* classify_response(url, resp.status_code, resp.text, resp.url), tabulated
\* over the answers
Classified ==
    [status \in Statuses \cup {0}, marker \in Markers, to_login \in BOOLEAN |->
        classify_response(<<"works", "1">>, status, NetText(marker),
                          NetFinalUrl(to_login))]

\* ... of one answer
classify(net) == Classified[net.status, net.marker, net.to_login]

\* ------------------------------------------------------------ credentials

UserList == <<"u1", "u2">>
Users == Range(UserList)
COOLDOWN_SECONDS == 900

\* CredentialRecord(username, password) as __init__ leaves it
NewCredential(u) ==
    [username |-> u, session |-> NULL, last_used |-> 0, cooldown_until |-> 0]

\* CredentialManager._load: no file, or a file listing the first n users
CredentialFiles ==
    {[k \in 1..n |-> NewCredential(UserList[k])] : n \in 0..Len(UserList)}

is_available(rec, t) == t >= rec.cooldown_until

\* pick without the sort: the first available record
pick_first(recs, t) ==
    LET cand == {k \in 1..Len(recs) : is_available(recs[k], t)}
    IN  IF cand = {} THEN 0 ELSE CHOOSE k \in cand : \A j \in cand : k <= j

\* CredentialManager.pick: the index in records of the available record with
\* the least last_used (the sort is stable), 0 for None
pick(recs, t) ==
    LET cand == {k \in 1..Len(recs) : is_available(recs[k], t)}
    IN  IF cand = {} THEN 0
        ELSE CHOOSE k \in cand : \A j \in cand :
                 \/ recs[k].last_used < recs[j].last_used
                 \/ recs[k].last_used = recs[j].last_used /\ k <= j

mark_used(recs, k, t) == [recs EXCEPT ![k].last_used = t]

Max(a, b) == IF a >= b THEN a ELSE b

\* cooldown without the max: the new deadline replaces the old one
cooldown_overwrite(recs, k, seconds, t) ==
    [recs EXCEPT ![k].cooldown_until = t + seconds]

cooldown(recs, k, seconds, t) ==
    [recs EXCEPT ![k].cooldown_until = Max(@, t + seconds)]

\* CredentialManager.mark_rate_limited(username): the first record of that name
mark_rate_limited(recs, u, t) ==
    LET named == {k \in 1..Len(recs) : recs[k].username = u}
    IN  IF named = {} THEN recs
        ELSE cooldown(recs, CHOOSE k \in named : \A j \in named : k <= j,
                      COOLDOWN_SECONDS, t)

\* Ao3Session(*args): the class defines login only and inherits
\* Ao3SessionUnPooled.__init__(self, username, password), which itself logs in
\* with a session of its own; a call with other than two arguments raises.
Ao3Session(args, net) ==
    IF Len(args) # 2 THEN Raise("TypeError")
    ELSE IF net.login_ok THEN Return("unpooled") ELSE Raise("LoginException")

\* CredentialRecord.ensure_session after its test of self.session: it builds
\* Ao3Session(), calls login on it and caches it; whatever raises leaves the
\* record as it was.
create_session(recs, k, net) ==
    LET s == Ao3Session(<<>>, net)
    IN  IF s.raised # NULL THEN [raised |-> s.raised, creds |-> recs]
        ELSE IF net.login_ok
        THEN [raised |-> NULL, creds |-> [recs EXCEPT ![k].session = "session"]]
        ELSE [raised |-> "LoginException", creds |-> recs]

\* CredentialRecord.ensure_session, run without interruption
ensure_session(recs, k, net) ==
    IF recs[k].session # NULL THEN [raised |-> NULL, creds |-> recs]
    ELSE create_session(recs, k, net)

\* ---------------------------------------------------------------- fetchers

\* the metadata collaborator: load_work_guest(ao3_id) of the public fetch,
\* Work(ao3_id, session=sess, load=True) of the authenticated one
load_metadata(net) ==
    IF net.meta_ok THEN Return("metadata") ELSE Raise("Exception")

\* meta = {}; if outcome in (...): try: meta = ... except Exception: meta = {}
extract_meta(outcome, outcomes, net) ==
    IF outcome \in outcomes
    THEN LET m == load_metadata(net)
         IN  IF m.raised # NULL THEN "{}" ELSE m.value
    ELSE "{}"

\* fetch_with_auth(ao3_id, cred_manager): what it returns or raises, and the
\* records it leaves behind
fetch_with_auth(i, recs, t, net) ==
    LET k == pick(recs, t)
    IN  IF k = 0
        THEN [res |-> FetchResult(
                         [ao3_id |-> i, authed |-> TRUE, outcome |-> "error",
                          status_code |-> 0, html |-> "", final_url |-> "work",
                          err |-> "no-available-credentials", user |-> NULL,
                          sess |-> NULL, meta |-> "{}"]),
              creds |-> recs]
        ELSE LET es == ensure_session(recs, k, net)
             IN  IF es.raised # NULL
                 THEN [res |-> Raise(es.raised), creds |-> es.creds]
                 ELSE IF net.exc = "RateLimitedException"
                 THEN [res |-> FetchResult(
                                  [ao3_id |-> i, authed |-> TRUE,
                                   outcome |-> "error", status_code |-> 429,
                                   html |-> "", final_url |-> "work",
                                   err |-> "rate-limited",
                                   user |-> recs[k].username, sess |-> NULL,
                                   meta |-> "{}"]),
                       creds |-> mark_rate_limited(es.creds, recs[k].username, t)]
                 ELSE IF net.exc # NULL
                 THEN [res |-> Raise(net.exc), creds |-> es.creds]
                 ELSE [res |-> FetchResult(
                                  [ao3_id |-> i, authed |-> TRUE,
                                   outcome |-> classify(net),
                                   status_code |-> net.status,
                                   html |-> net.marker,
                                   final_url |-> IF net.to_login THEN "users/login"
                                                 ELSE "work",
                                   err |-> NULL, user |-> recs[k].username,
                                   sess |-> "session",
                                   meta |-> extract_meta(
                                       classify(net),
                                       {"public", "restricted", "unrevealed"},
                                       net)]),
                       creds |-> mark_used(es.creds, k, t)]

\* fetch_public(ao3_id)
fetch_public(i, net) ==
    IF net.exc # NULL THEN Raise(net.exc)
    ELSE FetchResult(
             [ao3_id |-> i, authed |-> FALSE,
              outcome |-> classify(net), status_code |-> net.status,
              html |-> net.marker,
              final_url |-> IF net.to_login THEN "users/login" ELSE "work",
              err |-> NULL, user |-> NULL, sess |-> NULL,
              meta |-> extract_meta(classify(net), {"public"}, net)])

\* ------------------------------------------------------------- persistence

\* The database tables and the content store, as one value.
Db == [queue |-> queue, works |-> works, store |-> store, fetch_log |-> fetch_log]

\* (mutant) the error row replaces the log instead of joining it
requeue_relog(db, i, delay, msg, t) ==
    [db EXCEPT !.queue = RequeueRows(@, i, delay, t),
               !.fetch_log = IF Truthy(msg)
                             THEN <<LogRow(i, "system", "error", msg)>>
                             ELSE @]

\* requeue(s, id_, delay_seconds, error_msg) inside a transaction that commits
requeue(db, i, delay, msg, t) ==
    [db EXCEPT !.queue = RequeueRows(@, i, delay, t),
               !.fetch_log = IF Truthy(msg)
                             THEN Append(@, LogRow(i, "system", "error", msg))
                             ELSE @]

\* write_html_gz(id_, html): the blob is on disk before any transaction opens
write_html_gz(db, i) == [db EXCEPT !.store = @ \cup {i}]

WorkRow(i, status) ==
    [id |-> i, status |-> status, restricted |-> (status = "restricted")]

\* INSERT OR REPLACE INTO works
Upsert(ws, row) == {r \in ws : r.id # row.id} \cup {row}

\* The workers' raw statements (INSERT OR REPLACE, INSERT OR IGNORE,
\* datetime('now')) are SQLite's: PostgreSQL rejects them.
RawSqlRaises(dia) == dia = "postgresql"

\* DELETE FROM queue WHERE id = :id AND mode = 'update'
DeleteUpdateRows(q, i) == {r \in q : ~(r.id = i /\ r.mode = "update")}

\* ------------------------------------------------------------ auth worker

\* worker_auth.run.handle_one: the exception that escapes it, if any, and the
\* database it leaves (a transaction that raises is rolled back)
auth_handle_one(db, w, i, fr, t, dia) ==
    IF fr.raised # NULL THEN [raised |-> fr.raised, db |-> db]
    ELSE LET v == fr.value.fields
         IN  IF Truthy(v.err)
             THEN [raised |-> NULL,
                   db |-> LET d == requeue(db, i, 900, v.err, t)
                          IN  [d EXCEPT !.fetch_log =
                                  Append(@, LogRow(i, w, "error", v.err))]]
             ELSE IF v.outcome \in {"public", "restricted", "unrevealed"}
             THEN LET d == write_html_gz(db, i)
                  IN  IF RawSqlRaises(dia)
                      THEN [raised |-> "ProgrammingError", db |-> d]
                      ELSE [raised |-> NULL,
                            db |-> [d EXCEPT
                                      !.works = Upsert(@, WorkRow(i, v.outcome)),
                                      !.queue = DeleteRows(@, i),
                                      !.fetch_log =
                                          Append(@, LogRow(i, w, v.outcome, NULL))]]
             ELSE IF v.outcome = "not_found"
             THEN IF RawSqlRaises(dia)
                  THEN [raised |-> "ProgrammingError", db |-> db]
                  ELSE [raised |-> NULL,
                        db |-> [db EXCEPT
                                  !.works = Upsert(@, WorkRow(i, "not_found")),
                                  !.queue = DeleteRows(@, i),
                                  !.fetch_log =
                                      Append(@, LogRow(i, w, "not_found", NULL))]]
             ELSE [raised |-> NULL,
                   db |-> requeue(db, i, 900, "unexpected outcome " \o v.outcome, t)]

\* handle_one called without the try/except of handle_one_safe
handle_one_unsafe(db, w, i, fr, t, dia) ==
    auth_handle_one(db, w, i, fr, t, dia).db

\* worker_auth.run.handle_one_safe
handle_one_safe(db, w, i, fr, t, dia) ==
    LET h == auth_handle_one(db, w, i, fr, t, dia)
    IN  IF h.raised # NULL THEN requeue(h.db, i, 600, h.raised, t) ELSE h.db

\* ---------------------------------------------------------- update worker

\* One branch of worker_update.run.handle_one after the blob is written: the
\* transaction commits, or raises into the handler's except clause.
UpdatePersist(db, d, i, dia, t) ==
    IF RawSqlRaises(dia) THEN requeue(db, i, 300, "ProgrammingError", t) ELSE d

\* worker_update.run.handle_one: everything runs inside one try whose except
\* clause requeues after 300 s with str(e)
update_handle_one(db, w, i, fr, t, dia) ==
    IF fr.raised # NULL THEN requeue(db, i, 300, fr.raised, t)
    ELSE LET u == Unpack(fr.value, 5)
         IN  IF u.raised # NULL THEN requeue(db, i, 300, u.raised, t)
             ELSE LET outcome == u.value[1]
                      blob == write_html_gz(db, i)
                  IN  IF outcome = "public"
                      THEN UpdatePersist(blob,
                               [blob EXCEPT
                                  !.works = Upsert(@, WorkRow(i, "public")),
                                  !.queue = DeleteRows(@, i),
                                  !.fetch_log =
                                      Append(@, LogRow(i, w, "public-update", NULL))],
                               i, dia, t)
                      ELSE IF outcome = "restricted"
                      THEN UpdatePersist(blob,
                               [blob EXCEPT
                                  !.works = Upsert(@, WorkRow(i, "restricted")),
                                  !.queue = DeleteUpdateRows(
                                                InsertOrIgnore(@, NewRow(i, "auth", 50, t)),
                                                i),
                                  !.fetch_log =
                                      Append(@, LogRow(i, w, "restricted-update", NULL))],
                               i, dia, t)
                      ELSE IF outcome = "unrevealed"
                      THEN UpdatePersist(blob,
                               [blob EXCEPT
                                  !.works = Upsert(@, WorkRow(i, "unrevealed")),
                                  !.queue = DeleteRows(@, i),
                                  !.fetch_log =
                                      Append(@, LogRow(i, w, "unrevealed-update", NULL))],
                               i, dia, t)
                      ELSE IF outcome = "not_found"
                      THEN UpdatePersist(db,
                               [db EXCEPT
                                  !.works = Upsert(@, WorkRow(i, "not_found")),
                                  !.queue = DeleteRows(@, i),
                                  !.fetch_log =
                                      Append(@, LogRow(i, w, "not_found-update", NULL))],
                               i, dia, t)
                      ELSE requeue(db, i, 600, "unexpected outcome " \o outcome, t)

\* ------------------------------------------------------------ worker loops

\* w1 runs worker_auth.run, w2 runs worker_update.run
WorkerMode == [w \in Workers |-> IF w = "w1" THEN "auth" ELSE "update"]

\* config.CLAIM_BATCH (AO3_CLAIM_BATCH in the environment)
CLAIM_BATCH == MaxBatch

\* the worker processes start; the auth worker loads its credential file
InitWorker == InitDb /\ creds \in CredentialFiles

\* `ids = claim_batch(s, name, CLAIM_BATCH, mode=...)` at the top of the loop,
\* reached when every id of the last batch is handled
WorkerClaimAtomic(w) ==
    /\ batch[w] = {}
    /\ ClaimAtomicDb(w, CLAIM_BATCH, WorkerMode[w])
    /\ batch' = [batch EXCEPT ![w] = AtomicReturn(queue, queue', w)]
    /\ UNCHANGED <<works, store, creds, cvars, rvars, blocks, svars>>

WorkerClaimSelect(w) ==
    /\ batch[w] = {}
    /\ ClaimSelect(w, CLAIM_BATCH, WorkerMode[w])

WorkerClaimUpdate(w) ==
    /\ ClaimUpdateDb(w)
    /\ batch' = [batch EXCEPT ![w] = Range(sess[w].ids)]
    /\ UNCHANGED <<works, store, creds, cvars, rvars, blocks, svars>>

\* pool.map(handle_one_safe, ids) of the auth worker: one id of the batch
AuthHandle(w, i, net) ==
    /\ WorkerMode[w] = "auth"
    /\ i \in batch[w]
    /\ \A r \in RowsOf(queue, i) : r.attempts < MaxAttempts
    /\ UNCHANGED <<dialect, now, sess, cvars, rvars, blocks, svars>>
    /\ batch' = [batch EXCEPT ![w] = @ \ {i}]
    /\ LET f == fetch_with_auth(i, creds, now, net)
           d == handle_one_safe(Db, w, i, f.res, now, dialect)
       IN  /\ creds' = f.creds
           /\ queue' = d.queue
           /\ works' = d.works
           /\ store' = d.store
           /\ fetch_log' = d.fetch_log

\* pool.map(handle_one, ids) of the update worker: one id of the batch
UpdateHandle(w, i, net) ==
    /\ WorkerMode[w] = "update"
    /\ i \in batch[w]
    /\ \A r \in RowsOf(queue, i) : r.attempts < MaxAttempts
    /\ UNCHANGED <<dialect, now, sess, creds, cvars, rvars, blocks,
                   svars>>
    /\ batch' = [batch EXCEPT ![w] = @ \ {i}]
    /\ LET d == update_handle_one(Db, w, i, fetch_public(i, net), now, dialect)
       IN  /\ queue' = d.queue
           /\ works' = d.works
           /\ store' = d.store
           /\ fetch_log' = d.fetch_log

WorkerClaim == \E w \in Workers : WorkerClaimAtomic(w) \/ WorkerClaimSelect(w)

WorkerClaimFinish == \E w \in Workers : WorkerClaimUpdate(w)

AuthHandleOne == \E w \in Workers, i \in Ids, net \in Nets : AuthHandle(w, i, net)

\* the update worker never logs in
GuestNets == {net \in Nets : net.login_ok}

UpdateHandleOne == \E w \in Workers, i \in Ids, net \in GuestNets : UpdateHandle(w, i, net)

NextWorker ==
    \/ Tick
    \/ EnqueueRange
    \/ WorkerClaim
    \/ WorkerClaimFinish
    \/ AuthHandleOne
    \/ UpdateHandleOne

SpecWorker == InitWorker /\ [][NextWorker]_vars

\* ----------------------------------------------- worker loops, small batch

\* AO3_CLAIM_BATCH=1 in the environment: a batch smaller than the queue
LoopBatch == 1

\* `ids = claim_batch(s, name, CLAIM_BATCH, mode=...)` with that setting
LoopClaimAtomic(w) ==
    /\ batch[w] = {}
    /\ ClaimAtomicDb(w, LoopBatch, WorkerMode[w])
    /\ batch' = [batch EXCEPT ![w] = AtomicReturn(queue, queue', w)]
    /\ UNCHANGED <<works, store, creds, cvars, rvars, blocks, svars>>

LoopClaimSelect(w) ==
    /\ batch[w] = {}
    /\ ClaimSelect(w, LoopBatch, WorkerMode[w])

LoopClaim == \E w \in Workers : LoopClaimAtomic(w) \/ LoopClaimSelect(w)

NextLoop ==
    \/ Tick
    \/ EnqueueRange
    \/ LoopClaim
    \/ WorkerClaimFinish
    \/ AuthHandleOne
    \/ UpdateHandleOne

SpecLoop == InitWorker /\ [][NextLoop]_vars

\* ------------------------------------------- worker loops, fair scheduling

\* handle_one_safe(id_) in a pool thread, with no bound on the attempts an id
\* has had: the row is handled however often it was requeued
AuthAttempt(w, i, net) ==
    /\ WorkerMode[w] = "auth"
    /\ i \in batch[w]
    /\ UNCHANGED <<dialect, now, sess, cvars, rvars, blocks, svars>>
    /\ batch' = [batch EXCEPT ![w] = @ \ {i}]
    /\ LET f == fetch_with_auth(i, creds, now, net)
           d == handle_one_safe(Db, w, i, f.res, now, dialect)
       IN  /\ creds' = f.creds
           /\ queue' = d.queue
           /\ works' = d.works
           /\ store' = d.store
           /\ fetch_log' = d.fetch_log

\* handle_one(id_) of the update worker, likewise
UpdateAttempt(w, i, net) ==
    /\ WorkerMode[w] = "update"
    /\ i \in batch[w]
    /\ UNCHANGED <<dialect, now, sess, creds, cvars, rvars, blocks,
                   svars>>
    /\ batch' = [batch EXCEPT ![w] = @ \ {i}]
    /\ LET d == update_handle_one(Db, w, i, fetch_public(i, net), now, dialect)
       IN  /\ queue' = d.queue
           /\ works' = d.works
           /\ store' = d.store
           /\ fetch_log' = d.fetch_log

\* one id of a batch is handled: the fetch ends, whatever the archive answers
Attempt(w, i) ==
    \/ \E net \in Nets : AuthAttempt(w, i, net)
    \/ \E net \in GuestNets : UpdateAttempt(w, i, net)

AttemptOne == \E w \in Workers, i \in Ids : Attempt(w, i)

NextFair ==
    \/ Tick
    \/ EnqueueRange
    \/ WorkerClaim
    \/ WorkerClaimFinish
    \/ AttemptOne

\* The pool threads run every submitted id to its end (pool.map inside the
\* `with ThreadPoolExecutor` block, which waits for them), and a claim_batch
\* transaction that has selected goes on to its UPDATE.
Fairness ==
    /\ \A w \in Workers : WF_vars(\E i \in Ids : Attempt(w, i))
    /\ \A w \in Workers : WF_vars(WorkerClaimUpdate(w))

SpecFair == InitWorker /\ [][NextFair]_vars /\ Fairness

\* ================================================== credential manager API

MaxCredTicks == 3

\* the tables, the content store, the worker loops and the request layer
dbvars ==
    <<dialect, queue, fetch_log, sess, works, store, batch, rvars, blocks,
      svars>>

\* CredentialRecord.cooldown(seconds): a short and a long cooldown
CooldownSeconds == {300, 2 * COOLDOWN_SECONDS}

\* CredentialManager(): the records as _load builds them
InitCreds == InitDb /\ dialect = "sqlite" /\ creds \in CredentialFiles

\* time.time() between two calls
CredTick ==
    /\ now < 300 * MaxCredTicks
    /\ now' = now + 300
    /\ UNCHANGED <<dbvars, creds, cvars>>

\* rec = cred_manager.pick()
Pick ==
    /\ UNCHANGED <<dbvars, now, creds, thr>>
    /\ picked' = LET k == pick(creds, now)
                 IN  IF k = 0 THEN NULL ELSE creds[k].username

\* rec.mark_used()
MarkUsed(k) ==
    /\ UNCHANGED <<dbvars, now, cvars>>
    /\ creds' = mark_used(creds, k, now)

\* rec.cooldown(seconds)
Cooldown(k, seconds) ==
    /\ UNCHANGED <<dbvars, now, cvars>>
    /\ creds' = cooldown(creds, k, seconds, now)

\* cred_manager.mark_rate_limited(username)
MarkRateLimited(u) ==
    /\ UNCHANGED <<dbvars, now, cvars>>
    /\ creds' = mark_rate_limited(creds, u, now)

MarkUsedAny == \E k \in 1..Len(creds) : MarkUsed(k)

CooldownAny == \E k \in 1..Len(creds), seconds \in CooldownSeconds : Cooldown(k, seconds)

MarkRateLimitedAny == \E u \in Users : MarkRateLimited(u)

NextCreds ==
    \/ CredTick
    \/ Pick
    \/ MarkUsedAny
    \/ CooldownAny
    \/ MarkRateLimitedAny

SpecCreds == InitCreds /\ [][NextCreds]_vars

\* ===================================== ensure_session in the fetch pool

\* the auth worker's CredentialManager with at least one record
InitSession == InitDb /\ dialect = "sqlite" /\ creds \in CredentialFiles /\ creds # <<>>

\* `if self.session is None:` (creds.py:27) and, with a session cached,
\* `return self.session`
EnsureCheck(t, k) ==
    /\ thr[t].pc = "idle"
    /\ UNCHANGED <<dbvars, now, creds, picked>>
    /\ thr' = [thr EXCEPT ![t] =
                 IF creds[k].session # NULL
                 THEN [pc |-> "returned", rec |-> k, got |-> creds[k].session]
                 ELSE [pc |-> "create", rec |-> k]]

\* lines 28-35 of ensure_session, entered by a thread that saw no session
EnsureCreate(t, net) ==
    /\ thr[t].pc = "create"
    /\ UNCHANGED <<dbvars, now, picked>>
    /\ LET k == thr[t].rec
           c == create_session(creds, k, net)
       IN  /\ creds' = c.creds
           /\ thr' = [thr EXCEPT ![t] =
                        IF c.raised # NULL
                        THEN [pc |-> "raised", rec |-> k, exc |-> c.raised]
                        ELSE [pc |-> "returned", rec |-> k,
                              got |-> c.creds[k].session]]

\* the pool thread goes on to the next id of the batch
EnsureDone(t) ==
    /\ thr[t].pc \in {"returned", "raised"}
    /\ UNCHANGED <<dbvars, now, creds, picked>>
    /\ thr' = [thr EXCEPT ![t] = ThreadIdle]

EnsureCheckAny == \E t \in Threads, k \in 1..Len(creds) : EnsureCheck(t, k)

EnsureCreateAny == \E t \in Threads, net \in Nets : EnsureCreate(t, net)

EnsureDoneAny == \E t \in Threads : EnsureDone(t)

NextSession ==
    \/ EnsureCheckAny
    \/ EnsureCreateAny
    \/ EnsureDoneAny

SpecSession == InitSession /\ [][NextSession]_vars

\* =========================================================== request layer

MaxMono == 3
MaxRetryAfter == 12

\* the tables, the worker loops and the credential records
nvars_but_thr ==
    <<dialect, now, queue, fetch_log, sess, works, store, creds, batch, blocks,
      svars>>

\* the tables, the worker loops and the credential records alone
nvars_but_thr_svars ==
    <<dialect, now, queue, fetch_log, sess, works, store, creds, batch>>

\* everything but the request layer
nvars ==
    <<dialect, now, queue, fetch_log, sess, works, store, creds, batch, cvars,
      blocks, svars>>

\* Requester._throttle at monotonic time t: the bucket it leaves and the
\* ticks it sleeps. _last is set before the sleep and not after it.
throttle(b, t) ==
    LET refilled == Min(Capacity * Window, b.tokens + (t - b.last) * Capacity)
        short == refilled < Window
    IN  [bucket |-> [b EXCEPT !.last = t,
                              !.tokens = Max(0, (IF short THEN 0 ELSE refilled)
                                                - Window)],
         slept |-> IF short THEN (Window - refilled) \div Capacity ELSE 0]

\* ThreadSafeSessionProxy._throttle_token, called with the proxy's lock held
throttle_token(b, t) ==
    IF b.token = NULL THEN [bucket |-> b, slept |-> 0]
    ELSE LET refilled == Min(Capacity * Window,
                             b.tokens + (t - b.last) * Capacity)
         IN  IF refilled < Window
             THEN [bucket |-> [b EXCEPT !.last = t, !.tokens = Max(0, 0 - Window)],
                   slept |-> (Window - refilled) \div Capacity]
             ELSE [bucket |-> [b EXCEPT !.last = t,
                                        !.tokens = Max(0, refilled - Window)],
                   slept |-> 0]

\* the last n elements of s
LastN(s, n) == IF Len(s) <= n THEN s ELSE SubSeq(s, Len(s) - n + 1, Len(s))

\* a call leaves limiter l's throttle after r.slept ticks of sleep
Admit(l, r) ==
    /\ mono + r.slept <= MaxMono
    /\ mono' = mono + r.slept
    /\ bucket' = [bucket EXCEPT ![l] = r.bucket]
    /\ admitted' = [admitted EXCEPT ![l] = LastN(Append(@, mono'), Capacity + 1)]

\* a Requester and a session proxy are constructed, their buckets full
InitRequests == InitDb /\ dialect = "sqlite" /\ creds = <<>>

\* time passes between two calls
MonoTick ==
    /\ mono < MaxMono
    /\ mono' = mono + 1
    /\ UNCHANGED <<nvars, bucket, admitted, last_call>>

\* self._throttle() of one Requester.request call
Throttle ==
    /\ UNCHANGED <<nvars, last_call>>
    /\ Admit("requester", throttle(bucket["requester"], mono))

\* self._throttle_token() of one ThreadSafeSessionProxy.request call
ThrottleToken ==
    /\ UNCHANGED <<nvars, last_call>>
    /\ Admit("proxy", throttle_token(bucket["proxy"], mono))

NextThrottle ==
    \/ MonoTick
    \/ Throttle
    \/ ThrottleToken

SpecThrottle == InitRequests /\ [][NextThrottle]_vars

\* ------------------------------------------------------- Requester.request

\* Optional[float]
None == <<>>
Some(v) == <<v>>

DigitChars == <<"0", "1", "2", "3", "4", "5", "6", "7", "8", "9">>

\* str(n) for a natural number n
RECURSIVE Digits(_)
Digits(n) ==
    IF n < 10 THEN <<DigitChars[n + 1]>>
    ELSE Digits(n \div 10) \o <<DigitChars[(n % 10) + 1]>>

\* float(value) for a text of decimal digits; any other text of the header
\* alphabet raises ValueError
RECURSIVE PyFloat(_)
PyFloat(text) ==
    IF text = <<>> THEN Raise("ValueError")
    ELSE LET c == text[Len(text)]
             init == SubSeq(text, 1, Len(text) - 1)
         IN  IF c \notin Range(DigitChars) THEN Raise("ValueError")
             ELSE LET d == (CHOOSE k \in 1..10 : DigitChars[k] = c) - 1
                  IN  IF init = <<>> THEN Return(d)
                      ELSE LET p == PyFloat(init)
                           IN  IF p.raised # NULL THEN p
                               ELSE Return(10 * p.value + d)

\* _parse_retry_after reading no header: the hint is always absent
parse_retry_after_absent(header) == None

\* _parse_retry_after(resp.headers.get("Retry-After"))
parse_retry_after(header) ==
    IF ~header.present \/ header.text = <<>> THEN None
    ELSE LET f == PyFloat(header.text)
         IN  IF f.raised # NULL THEN None ELSE Some(f.value)

\* Retry-After as the remote sends it: absent, empty, delta-seconds, an
\* HTTP-date, or seconds followed by a unit
RetryAfterSeconds == {0, 2, MaxRetryAfter}

HeaderTexts ==
    {<<>>, <<"W", "e", "d">>, <<"2", "s">>} \cup {Digits(n) : n \in RetryAfterSeconds}

Headers ==
    {[present |-> FALSE, text |-> <<>>]}
    \cup {[present |-> TRUE, text |-> x] : x \in HeaderTexts}

\* Requester.__init__ defaults
max_retries == 3
status_forcelist == {429, 500, 502, 503, 504}

\* the statuses the remote answers with
RemoteStatuses == {200, 429, 503}

\* the remote's answers to the successive HTTP attempts of one call
Scripts == [1..(max_retries + 1) -> RemoteStatuses]

\* the session the call goes through: one carrying the adapter that
\* _ensure_adapters mounts, or a caller's force_session without it
Transports == {"retrying", "plain"}

\* HTTPAdapter.send under urllib3's Retry(total, status_forcelist,
\* raise_on_status=False): an answer whose status is in the forcelist is
\* retried while retries are left; the last answer is handed back.
RECURSIVE send(_, _, _)
send(script, n, total) ==
    IF script[n] \in status_forcelist /\ n <= total
    THEN send(script, n + 1, total)
    ELSE [status |-> script[n], attempts |-> n]

\* sess.request(...) and the status test of Requester.request
request(script, header, transport) ==
    LET s == send(script, 1, IF transport = "retrying" THEN max_retries ELSE 0)
        resp == [status |-> s.status,
                 retry_after |-> IF s.status = 200
                                 THEN [present |-> FALSE, text |-> <<>>]
                                 ELSE header]
    IN  [attempts |-> s.attempts, first |-> script[1], transport |-> transport,
         resp |-> resp,
         raised |-> IF resp.status = 429 THEN "RateLimitedException" ELSE NULL,
         retry_after |-> IF resp.status = 429
                         THEN parse_retry_after(resp.retry_after)
                         ELSE None]

\* Requester.request(method, url, ...): throttle, send, test the status
Request(script, header, transport) ==
    /\ UNCHANGED nvars
    /\ Admit("requester", throttle(bucket["requester"], mono))
    /\ last_call' = request(script, header, transport)

RequestAny ==
    \E script \in Scripts, header \in Headers, transport \in Transports :
       Request(script, header, transport)

NextRequester ==
    \/ MonoTick
    \/ RequestAny

SpecRequester == InitRequests /\ [][NextRequester]_vars

\* ================================= the guest Requester in the fetch pool

\* sessions._req_guest is one Requester shared by the threads of the update
\* worker's pool; _throttle takes no lock, so its statements interleave.

\* now = time.monotonic(); elapsed = now - self._last; self._last = now
GuestEnter(t) ==
    /\ thr[t].pc = "idle"
    /\ UNCHANGED <<nvars_but_thr, picked, mono, admitted, last_call>>
    /\ thr' = [thr EXCEPT ![t] =
                 [pc |-> "refill", elapsed |-> mono - bucket["requester"].last]]
    /\ bucket' = [bucket EXCEPT !["requester"].last = mono]

\* self._tokens = min(self._capacity, self._tokens + elapsed * rate)
GuestRefill(t) ==
    /\ thr[t].pc = "refill"
    /\ UNCHANGED <<nvars_but_thr, picked, mono, admitted, last_call>>
    /\ thr' = [thr EXCEPT ![t] = [pc |-> "check"]]
    /\ bucket' = [bucket EXCEPT !["requester"].tokens =
                     Min(Capacity * Window, @ + thr[t].elapsed * Capacity)]

\* if self._tokens < 1: sleep_for = ...; time.sleep(sleep_for)
GuestCheck(t) ==
    /\ thr[t].pc = "check"
    /\ UNCHANGED <<nvars_but_thr, picked, mono, bucket, admitted, last_call>>
    /\ thr' = [thr EXCEPT ![t] =
                 IF bucket["requester"].tokens < Window
                 THEN [pc |-> "sleep",
                       wake |-> mono + (Window - bucket["requester"].tokens)
                                       \div Capacity]
                 ELSE [pc |-> "consume"]]

\* time.sleep returns; self._tokens = 0
GuestWake(t) ==
    /\ thr[t].pc = "sleep"
    /\ mono >= thr[t].wake
    /\ UNCHANGED <<nvars_but_thr, picked, mono, admitted, last_call>>
    /\ thr' = [thr EXCEPT ![t] = [pc |-> "consume"]]
    /\ bucket' = [bucket EXCEPT !["requester"].tokens = 0]

\* self._tokens = max(0, self._tokens - 1); the call goes on to send
GuestConsume(t) ==
    /\ thr[t].pc = "consume"
    /\ UNCHANGED <<nvars_but_thr, picked, mono, last_call>>
    /\ thr' = [thr EXCEPT ![t] = ThreadIdle]
    /\ bucket' = [bucket EXCEPT !["requester"].tokens = Max(0, @ - Window)]
    /\ admitted' = [admitted EXCEPT !["requester"] =
                       LastN(Append(@, mono), Capacity + 1)]

GuestEnterAny == \E t \in Threads : GuestEnter(t)

GuestRefillAny == \E t \in Threads : GuestRefill(t)

GuestCheckAny == \E t \in Threads : GuestCheck(t)

GuestWakeAny == \E t \in Threads : GuestWake(t)

GuestConsumeAny == \E t \in Threads : GuestConsume(t)

NextGuest ==
    \/ MonoTick
    \/ GuestEnterAny
    \/ GuestRefillAny
    \/ GuestCheckAny
    \/ GuestWakeAny
    \/ GuestConsumeAny

SpecGuest == InitRequests /\ [][NextGuest]_vars

\* =========================================== ThreadSafeSessionProxy calls

\* the threads inside `with self._lock:` of proxy p
LockHolders(p) == {t \in Threads : thr[t].pc = "request" /\ thr[t].proxy = p}

\* the threads with a request in progress on the session that p wraps
OnSession(p) ==
    {t \in Threads : thr[t].pc \in {"request", "get"} /\ thr[t].proxy = p}

\* proxy.request(...): the thread takes the lock, runs _throttle_token and
\* is inside self._session.request
ProxyRequestEnter(t, p) ==
    /\ thr[t].pc = "idle"
    /\ LockHolders(p) = {}
    /\ UNCHANGED <<nvars_but_thr, picked, last_call>>
    /\ Admit(p, throttle_token(bucket[p], mono))
    /\ thr' = [thr EXCEPT ![t] = [pc |-> "request", proxy |-> p]]

\* proxy.get(...) / proxy.post(...): __getattr__ hands out the wrapped
\* session's bound method, which calls the session's own request
ProxyGetEnter(t, p) ==
    /\ thr[t].pc = "idle"
    /\ UNCHANGED <<nvars_but_thr, picked, rvars>>
    /\ thr' = [thr EXCEPT ![t] = [pc |-> "get", proxy |-> p]]

\* the response arrives; a proxy.request call leaves the lock
ProxyExit(t) ==
    /\ thr[t].pc \in {"request", "get"}
    /\ UNCHANGED <<nvars_but_thr, picked, rvars>>
    /\ thr' = [thr EXCEPT ![t] = ThreadIdle]

ProxyRequestEnterAny == \E t \in Threads, p \in Proxies : ProxyRequestEnter(t, p)

ProxyGetEnterAny == \E t \in Threads, p \in Proxies : ProxyGetEnter(t, p)

ProxyExitAny == \E t \in Threads : ProxyExit(t)

NextProxy ==
    \/ MonoTick
    \/ ProxyRequestEnterAny
    \/ ProxyGetEnterAny
    \/ ProxyExitAny

SpecProxy == InitRequests /\ [][NextProxy]_vars

\* ============================================================ SessionPool

\* the threads inside `with self._lock:` of the pool: in login_fn(raw) of
\* get_or_create, or at the proxy's set_token
PoolHolders == {t \in Threads : thr[t].pc \in {"login", "set_token"}}

\* (mutant) a request that calls back into the pool before it returns, its
\* proxy's lock still held
request_blockers_pool(t) == PoolHolders \ {t}

\* the threads whose locks self._session.request(...) needs in order to
\* return: it takes no lock
request_blockers(t) == {}

\* session_pool.get_or_create(username, login_fn=...): the thread takes the
\* pool's lock; a cached proxy is returned at once, otherwise the thread
\* builds a session and is inside login_fn(raw)
GetOrCreateEnter(t, p) ==
    /\ thr[t].pc = "idle"
    /\ PoolHolders = {}
    /\ UNCHANGED <<nvars_but_thr, picked, rvars>>
    /\ thr' = IF p \in by_user THEN thr
              ELSE [thr EXCEPT ![t] = [pc |-> "login", proxy |-> p]]

\* login_fn(raw) returns a token or raises; an exception leaves the with
\* block and the call
GetOrCreateLogin(t, ok) ==
    /\ thr[t].pc = "login"
    /\ UNCHANGED <<nvars_but_thr, picked, rvars>>
    /\ thr' = [thr EXCEPT ![t] =
                 IF ok THEN [pc |-> "set_token", proxy |-> thr[t].proxy,
                             op |-> "get_or_create"]
                 ELSE ThreadIdle]

\* session_pool.set_token(username, token): under the pool's lock, the
\* cached proxy's set_token if there is one
PoolSetTokenEnter(t, p) ==
    /\ thr[t].pc = "idle"
    /\ PoolHolders = {}
    /\ UNCHANGED <<nvars_but_thr, picked, rvars>>
    /\ thr' = IF p \in by_user
              THEN [thr EXCEPT ![t] = [pc |-> "set_token", proxy |-> p,
                                       op |-> "set_token"]]
              ELSE thr

\* proxy.set_token(token) called with the pool's lock held: the thread gets
\* the proxy's lock, refills the bucket, leaves both locks; get_or_create
\* caches the proxy
PoolSetToken(t) ==
    /\ thr[t].pc = "set_token"
    /\ LockHolders(thr[t].proxy) = {}
    /\ UNCHANGED <<dialect, now, queue, fetch_log, sess, works, store, creds,
                   batch, blocks, sessions, attached, picked, mono, admitted,
                   last_call>>
    /\ bucket' = [bucket EXCEPT ![thr[t].proxy] = NewBucket(thr[t].proxy, mono)]
    /\ by_user' = IF thr[t].op = "get_or_create"
                  THEN by_user \cup {thr[t].proxy} ELSE by_user
    /\ thr' = [thr EXCEPT ![t] = ThreadIdle]

\* session_pool.drop(username)
PoolDrop(t, p) ==
    /\ thr[t].pc = "idle"
    /\ PoolHolders = {}
    /\ p \in by_user
    /\ UNCHANGED <<dialect, now, queue, fetch_log, sess, works, store, creds,
                   batch, blocks, sessions, attached, cvars, rvars>>
    /\ by_user' = by_user \ {p}

\* proxy.set_token(token) called on the proxy itself
ProxySetToken(t, p) ==
    /\ thr[t].pc = "idle"
    /\ LockHolders(p) = {}
    /\ bucket[p] # NewBucket(p, mono)
    /\ UNCHANGED <<nvars, mono, admitted, last_call>>
    /\ bucket' = [bucket EXCEPT ![p] = NewBucket(p, mono)]

\* self._session.request(...) returns and proxy.request leaves the lock
RequestReturn(t) ==
    /\ thr[t].pc = "request"
    /\ request_blockers(t) = {}
    /\ UNCHANGED <<nvars_but_thr, picked, rvars>>
    /\ thr' = [thr EXCEPT ![t] = ThreadIdle]

GetOrCreateEnterAny == \E t \in Threads, p \in Proxies : GetOrCreateEnter(t, p)

GetOrCreateLoginAny == \E t \in Threads, ok \in BOOLEAN : GetOrCreateLogin(t, ok)

PoolSetTokenEnterAny == \E t \in Threads, p \in Proxies : PoolSetTokenEnter(t, p)

PoolSetTokenAny == \E t \in Threads : PoolSetToken(t)

PoolDropAny == \E t \in Threads, p \in Proxies : PoolDrop(t, p)

ProxySetTokenAny == \E t \in Threads, p \in Proxies : ProxySetToken(t, p)

RequestReturnAny == \E t \in Threads : RequestReturn(t)

NextPool ==
    \/ GetOrCreateEnterAny
    \/ GetOrCreateLoginAny
    \/ PoolSetTokenEnterAny
    \/ PoolSetTokenAny
    \/ PoolDropAny
    \/ ProxySetTokenAny
    \/ ProxyRequestEnterAny
    \/ RequestReturnAny

SpecPool == InitRequests /\ [][NextPool]_vars

\* ================================================================= blocks

MaxBlockId == 3
MaxBlockSize == 3
MaxBlocks == 3

\* the ids a block range is drawn from
BlockIds == 1..MaxBlockId
BlockSizes == 1..MaxBlockSize

\* (mutant) b_stop without the - 1: blocks of block_size + 1 ids
RECURSIVE BlockRangesWide(_, _, _)
BlockRangesWide(cur, stop, block_size) ==
    IF cur > stop THEN <<>>
    ELSE LET b_stop == Min(stop, cur + block_size)
         IN  <<[start |-> cur, stop |-> b_stop]>>
                \o BlockRangesWide(b_stop + 1, stop, block_size)

\* the while loop of create_blocks_and_enqueue from cur on: the [b_start,
\* b_stop] ranges it inserts, in order
RECURSIVE BlockRanges(_, _, _)
BlockRanges(cur, stop, block_size) ==
    IF cur > stop THEN <<>>
    ELSE LET b_stop == Min(stop, cur + block_size - 1)
         IN  <<[start |-> cur, stop |-> b_stop]>>
                \o BlockRanges(b_stop + 1, stop, block_size)

\* insert(blocks).values(start, stop, mode, priority) for each range; the
\* autoincrement id of a row is its position in the table
RECURSIVE InsertBlocks(_, _, _, _)
InsertBlocks(bl, ranges, mode, priority) ==
    IF ranges = <<>> THEN bl
    ELSE InsertBlocks(
            Append(bl, [id |-> Len(bl) + 1,
                        start |-> Head(ranges).start,
                        stop |-> Head(ranges).stop,
                        mode |-> mode, priority |-> priority]),
            Tail(ranges), mode, priority)

\* enqueue_range(db_session, b_start, b_stop, mode, priority) for each range
RECURSIVE EnqueueBlocks(_, _, _, _, _)
EnqueueBlocks(q, ranges, mode, priority, t) ==
    IF ranges = <<>> THEN q
    ELSE EnqueueBlocks(
            EnqueueTable(q, PyRange(Head(ranges).start, Head(ranges).stop),
                         mode, priority, t),
            Tail(ranges), mode, priority, t)

\* create_blocks_and_enqueue: the tables afterwards and the block ids returned
create_blocks_and_enqueue(bl, q, start, stop, block_size, mode, priority, t) ==
    LET ranges == BlockRanges(start, stop, block_size)
    IN  [blocks |-> InsertBlocks(bl, ranges, mode, priority),
         queue |-> EnqueueBlocks(q, ranges, mode, priority, t),
         block_ids |-> [k \in 1..Len(ranges) |-> Len(bl) + k]]

\* SELECT ... GROUP BY status over the works rows of the range
StatusCounts(w, start, stop) ==
    [st \in {r.status : r \in {x \in w : start <= x.id /\ x.id <= stop}} |->
        Cardinality({r \in w : start <= r.id /\ r.id <= stop /\ r.status = st})]

\* block_progress(db_session, block_id)
block_progress(bl, q, w, block_id) ==
    IF block_id \notin 1..Len(bl)
    THEN [id |-> block_id, error |-> "not found"]
    ELSE LET start == bl[block_id].start
             stop == bl[block_id].stop
             total == stop - start + 1
             remaining ==
                 Cardinality({r \in q : start <= r.id /\ r.id <= stop})
         IN  [id |-> block_id, range |-> <<start, stop>>, total |-> total,
              remaining |-> remaining, done |-> total - remaining,
              statuses |-> StatusCounts(w, start, stop)]

\* the tables block_progress reads
BlockTables == <<blocks, queue, works, fetch_log>>

\* the enqueue-blocks command: create_blocks_and_enqueue in one transaction;
\* the command is run once, on an empty blocks table
DoCreateBlocks(start, stop, block_size, mode, priority) ==
    /\ blocks = <<>>
    /\ Len(BlockRanges(start, stop, block_size)) <= MaxBlocks
    /\ UNCHANGED <<dialect, now, fetch_log, sess, works, store, creds, batch,
                   cvars, rvars, svars>>
    /\ LET d == create_blocks_and_enqueue(blocks, queue, start, stop,
                                          block_size, mode, priority, now)
       IN  /\ blocks' = d.blocks
           /\ queue' = d.queue

\* ... for the update queue with the default priority
CreateBlocks ==
    \E start \in BlockIds, stop \in BlockIds, block_size \in BlockSizes :
        DoCreateBlocks(start, stop, block_size, "update", DefaultPriority)

\* the status-blocks command: block_progress of one block id
BlockProgress ==
    \E block_id \in 1..MaxBlocks + 1 :
        /\ UNCHANGED <<nvars, mono, bucket, admitted>>
        /\ last_call' = block_progress(blocks, queue, works, block_id)

\* enqueue_ids of one id for the update queue
BlockEnqueue == \E i \in BlockIds : DoEnqueue(<<i>>, "update", DefaultPriority)

\* the update worker's escalation: the id enqueued for the auth queue
BlockEscalate == \E i \in BlockIds : DoEnqueue(<<i>>, "auth", 50)

\* claim_batch of one claimer on PostgreSQL
BlockClaim ==
    \E lim \in BatchSizes, mode \in Modes : ClaimAtomic("w1", lim, mode)

BlockRequeue == \E i \in BlockIds : DoRequeue(i, 300, NULL)

BlockComplete == \E i \in BlockIds : DoComplete(i)

InitBlocks == InitDb /\ dialect = "postgresql" /\ creds = <<>>

NextBlocks ==
    \/ CreateBlocks
    \/ BlockProgress
    \/ BlockEnqueue
    \/ BlockEscalate
    \/ BlockClaim
    \/ BlockRequeue
    \/ BlockComplete

SpecBlocks == InitBlocks /\ [][NextBlocks]_vars

\* ------------------------------------- the loop of create_blocks_and_enqueue

\* --block-size is any integer (click type=int, no check): a negative size
\* and zero beside the positive ones
LoopBlockSizes == {-1, 0} \cup BlockSizes

\* enqueue_blocks_cmd calls create_blocks_and_enqueue(s, start, stop,
\* block_size, mode, priority): block_ids = [], cur = start
BlocksCall(start, stop, block_size, mode, priority) ==
    /\ last_call = NoCall
    /\ blocks = <<>>
    /\ UNCHANGED <<nvars, mono, bucket, admitted>>
    /\ last_call' = [pc |-> "while", start |-> start, stop |-> stop,
                     block_size |-> block_size, mode |-> mode,
                     priority |-> priority, cur |-> start, block_ids |-> <<>>]

\* the call is at the head of its while loop
InLoop == "pc" \in DOMAIN last_call /\ last_call.pc = "while"

\* one turn of `while cur <= stop:`: insert the block, enqueue its range,
\* append its id, cur = b_stop + 1
BlocksIterate ==
    /\ InLoop
    /\ last_call.cur <= last_call.stop
    /\ Len(blocks) < MaxBlocks
    /\ UNCHANGED <<dialect, now, fetch_log, sess, works, store, creds, batch,
                   cvars, mono, bucket, admitted, svars>>
    /\ LET b_start == last_call.cur
           b_stop == Min(last_call.stop, last_call.cur + last_call.block_size - 1)
       IN  /\ blocks' = InsertBlocks(blocks, <<[start |-> b_start, stop |-> b_stop]>>,
                                     last_call.mode, last_call.priority)
           /\ queue' = EnqueueTable(queue, PyRange(b_start, b_stop),
                                    last_call.mode, last_call.priority, now)
           /\ last_call' = [last_call EXCEPT
                              !.cur = b_stop + 1,
                              !.block_ids = Append(@, Len(blocks) + 1)]

\* the loop condition fails: return block_ids
BlocksReturn ==
    /\ InLoop
    /\ last_call.cur > last_call.stop
    /\ UNCHANGED <<nvars, mono, bucket, admitted>>
    /\ last_call' = [last_call EXCEPT !.pc = "returned"]

BlocksCallAny ==
    \E start \in BlockIds, stop \in BlockIds, block_size \in LoopBlockSizes,
       mode \in Modes :
        BlocksCall(start, stop, block_size, mode, DefaultPriority)

InitBlockLoop == InitDb /\ creds = <<>>

NextBlockLoop ==
    \/ BlocksCallAny
    \/ BlocksIterate
    \/ BlocksReturn

SpecBlockLoop == InitBlockLoop /\ [][NextBlockLoop]_vars

\* ======================================================= classify_response

\* status codes: one per rule, and two that no rule names
ClassifyStatuses == {200, 401, 403, 404, 429, 500}

\* the url argument: the work that was asked for
ClassifyUrls == {<<"works", "1">>, <<"works", "2">>}

\* final urls, each with whether it is the login page
FinalUrls ==
    {[text |-> <<"works", "1">>, login |-> FALSE],
     [text |-> <<"login", "users">>, login |-> FALSE],
     [text |-> <<>>, login |-> FALSE],
     [text |-> <<"users", "login">>, login |-> TRUE],
     [text |-> <<"archiveofourown.org", "users", "login", "restricted">>,
      login |-> TRUE]}

\* page bodies, each with the phrases it holds
Bodies ==
    {[text |-> <<>>, restricted |-> FALSE, unrevealed |-> FALSE],
     [text |-> <<"Chapter", "1">>, restricted |-> FALSE, unrevealed |-> FALSE],
     [text |-> <<"This", "work", "is">>,
      restricted |-> FALSE, unrevealed |-> FALSE],
     [text |-> <<"Log", "in", "to", "access", "more", "works">>,
      restricted |-> TRUE, unrevealed |-> FALSE],
     [text |-> <<"LOG", "IN", "TO", "ACCESS", "MORE", "WORKS">>,
      restricted |-> TRUE, unrevealed |-> FALSE],
     [text |-> <<"Sorry", "this", "work", "is", "only", "available", "to",
                 "users", "18", "and", "older">>,
      restricted |-> TRUE, unrevealed |-> FALSE],
     [text |-> <<"This", "work", "is", "unrevealed">>,
      restricted |-> FALSE, unrevealed |-> TRUE],
     [text |-> <<"THIS", "WORK", "IS", "UNREVEALED">>,
      restricted |-> FALSE, unrevealed |-> TRUE],
     [text |-> <<"this", "work", "will", "be", "revealed", "soon">>,
      restricted |-> FALSE, unrevealed |-> TRUE],
     [text |-> <<"This", "work", "is", "unrevealed", "Log", "in", "to",
                 "access", "more", "works">>,
      restricted |-> TRUE, unrevealed |-> TRUE]}

\* one call of classify_response, its arguments and its result recorded
Classify ==
    \E url \in ClassifyUrls, status_code \in ClassifyStatuses,
       body \in Bodies, final \in FinalUrls :
        /\ UNCHANGED <<nvars, mono, bucket, admitted>>
        /\ last_call' =
              [url |-> url, status_code |-> status_code, text |-> body.text,
               final_url |-> final.text,
               outcome |-> classify_response(url, status_code, body.text,
                                             final.text)]

InitClassify == InitDb /\ dialect = "sqlite" /\ creds = <<>>

NextClassify == Classify

SpecClassify == InitClassify /\ [][NextClassify]_vars

\* ============================================ the Requester and sessions

MaxInstalls == 2

\* --------------------------------------------------------- session helpers

\* (mutant) the adapters mounted without a look at the flag
ensure_adapters_again(o) ==
    [o EXCEPT !.adapters = "requester", !.installs = @ + 1,
              !._ao3_adapters_installed = TRUE]

\* Requester._ensure_adapters(session)
ensure_adapters(o) ==
    IF o._ao3_adapters_installed THEN o
    ELSE [o EXCEPT !.adapters = "requester", !.installs = @ + 1,
                   !._ao3_adapters_installed = TRUE]

\* Requester._ensure_default_headers(session): setdefault of each default
ensure_default_headers(o) ==
    IF o._ao3_headers_installed THEN o
    ELSE [o EXCEPT
            !.headers = [h \in DOMAIN @ |->
                           IF @[h] = NULL THEN "requester" ELSE @[h]],
            !.header_installs = @ + 1,
            !._ao3_headers_installed = TRUE]

\* Requester.configure_session(session)
configure_session(o) == ensure_default_headers(ensure_adapters(o))

\* sess = force_session or self.session or requests.Session(): which object
\* the call uses; "new" is the one built for this call alone
use_session(force, att) ==
    IF force # NULL THEN force ELSE IF att # NULL THEN att ELSE "new"

\* the object of that name
SessionObject(ss, name) == IF name = "new" THEN NewSession ELSE ss[name]

\* (mutant) adapters and headers ensured on a forced session as well
prepare_always(o, force) == configure_session(o)

\* if force_session is None: _ensure_adapters(sess); _ensure_default_headers
prepare(o, force) == IF force = NULL THEN configure_session(o) ELSE o

\* (mutant) the transport's exception passed on as it is
reraise(cause, url, method) ==
    [raised |-> cause, url |-> NULL, method |-> NULL, cause |-> NULL,
     returned |-> FALSE]

\* raise NetworkException(str(e), url=url, method=method) from e
wrap(cause, url, method) ==
    [raised |-> "NetworkException", url |-> url, method |-> method,
     cause |-> cause, returned |-> FALSE]

\* what sess.request meets: a transport failure (a requests.RequestException)
\* or the remote's answers
TransportFailures == {"ConnectionError", "Timeout"}

Answers ==
    [fail : TransportFailures, status : {0}]
    \cup [fail : {NULL}, status : {200, 429}]

\* the calls made: a page fetched, the login form posted
Calls ==
    {[method |-> "GET", url |-> "works/1"],
     [method |-> "POST", url |-> "users/login"]}

\* Requester.request after the throttle: the session used, what became of
\* it, and how the call ended
session_request(ss, att, force, method, url, answer) ==
    LET used == use_session(force, att)
        before == SessionObject(ss, used)
        after == prepare(before, force)
        transport == IF after.adapters = "requester" THEN "retrying"
                     ELSE "plain"
        sent == request([n \in 1..(max_retries + 1) |-> answer.status],
                        [present |-> FALSE, text |-> <<>>], transport)
    IN  [force |-> force, used |-> used, before |-> before, after |-> after,
         method |-> method, url |-> url, answer |-> answer,
         end |-> IF answer.fail # NULL
                 THEN wrap(answer.fail, url, method)
                 ELSE [raised |-> sent.raised, url |-> NULL, method |-> NULL,
                       cause |-> NULL, returned |-> sent.raised = NULL]]

\* ----------------------------------------------------------------- actions

\* r.configure_session(s)
ConfigureSession(s) ==
    /\ sessions[s].installs < MaxInstalls
    /\ UNCHANGED <<nvars_but_thr_svars, cvars, rvars, blocks, attached, by_user>>
    /\ sessions' = [sessions EXCEPT ![s] = configure_session(@)]

\* r.attach_session(s)
AttachSession(s) ==
    /\ sessions[s].installs < MaxInstalls
    /\ UNCHANGED <<nvars_but_thr_svars, cvars, rvars, blocks, by_user>>
    /\ sessions' = [sessions EXCEPT ![s] = configure_session(@)]
    /\ attached' = s

\* r.detach_session()
DetachSession ==
    /\ attached # NULL
    /\ UNCHANGED <<nvars_but_thr_svars, cvars, rvars, blocks, sessions, by_user>>
    /\ attached' = NULL

\* r.request(method, url, force_session=force): throttle, choose and prepare
\* the session, send, wrap a transport failure
SessionRequest(force, method, url, answer) ==
    /\ \A s \in Sessions : sessions[s].installs < MaxInstalls
    /\ UNCHANGED <<nvars_but_thr_svars, cvars, blocks, attached, by_user>>
    /\ Admit("requester", throttle(bucket["requester"], mono))
    /\ LET c == session_request(sessions, attached, force, method, url, answer)
       IN  /\ last_call' = c
           /\ sessions' = IF c.used = "new" THEN sessions
                          ELSE [sessions EXCEPT ![c.used] = c.after]

ConfigureSessionAny == \E s \in Sessions : ConfigureSession(s)

AttachSessionAny == \E s \in Sessions : AttachSession(s)

SessionRequestAny ==
    \E force \in Sessions \cup {NULL}, call \in Calls, answer \in Answers :
        SessionRequest(force, call.method, call.url, answer)

InitMount == InitDb /\ dialect = "sqlite" /\ creds = <<>>

NextMount ==
    \/ MonoTick
    \/ ConfigureSessionAny
    \/ AttachSessionAny
    \/ DetachSession
    \/ SessionRequestAny

SpecMount == InitMount /\ [][NextMount]_vars

\* =============================================================== fetch log

\* log_fetch(db_session, ao3_id, worker, outcome) in a session of its own
log_fetch(log, i, worker, outcome) ==
    Append(log, LogRow(i, worker, outcome, NULL))

LogFetch ==
    \E i \in Ids, w \in Workers :
        /\ Len(fetch_log) <= MaxLog
        /\ UNCHANGED <<dialect, now, queue, sess, wvars>>
        /\ fetch_log' = log_fetch(fetch_log, i, w, "public")

\* the enqueue-blocks command over the ids the workers handle
LogCreateBlocks ==
    \E start \in Ids, stop \in Ids, mode \in Modes :
        DoCreateBlocks(start, stop, 1, mode, DefaultPriority)

\* the top of a worker's loop on PostgreSQL
LogClaim == \E w \in Workers : WorkerClaimAtomic(w)

\* one credential on file, PostgreSQL
InitLog ==
    /\ InitDb
    /\ dialect = "postgresql"
    /\ creds = <<NewCredential(UserList[1])>>

\* the workers, the queue API and the block commands side by side
NextLog ==
    \/ Tick
    \/ LogCreateBlocks
    \/ LogClaim
    \/ AuthHandleOne
    \/ UpdateHandleOne
    \/ Requeue
    \/ Complete
    \/ LogFetch

SpecLog == InitLog /\ [][NextLog]_vars

\* ======================================================= claims, queue API

\* The step completes a claim_batch call of w on PostgreSQL.
AtomicClaimStep(w) == \E b \in BatchSizes, m \in Modes : ClaimAtomic(w, b, m)

Unlocked(q, i) == \A r \in RowsOf(q, i) : r.locked_by = NULL

\* C1: the id lists claim_batch returns to two different callers, with no
\* requeue or complete in between, are disjoint. A row locked by another
\* caller is an id that caller's claim_batch returned and that has not been
\* requeued or completed since: no claim_batch may return it.
C1_NoDoubleClaim ==
    [][\A w \in Workers :
          /\ AtomicClaimStep(w) =>
                \A i \in AtomicReturn(queue, queue', w) :
                    \A r \in RowsOf(queue, i) : r.locked_by \in {NULL, w}
          /\ ClaimUpdate(w) =>
                \A i \in Range(sess[w].ids) :
                    \A r \in RowsOf(queue, i) : r.locked_by \in {NULL, w}
      ]_vars

\* The eligibility and the order C2 states, written from the claim.
C2_Due(r, mode) == r.mode = mode /\ r.locked_by = NULL /\ r.next_attempt <= now

C2_Earlier(a, b) ==
    a.priority < b.priority \/ (a.priority = b.priority /\ a.id < b.id)

\* R is the first min(batch, k) of the k eligible rows of queue
C2_FirstK(R, mode, lim) ==
    LET E == {r \in queue : C2_Due(r, mode)}
    IN  /\ R \subseteq IdsOf(E)
        /\ Cardinality(R) = Min(lim, Cardinality(E))
        /\ \A a \in E, b \in E : (a.id \in R /\ b.id \notin R) => C2_Earlier(a, b)

\* every returned row is locked by w, every other row is as it was
C2_Post(R, w) ==
    /\ IdsOf(queue') = IdsOf(queue)
    /\ Cardinality(queue') = Cardinality(queue)
    /\ \A r \in queue' : IF r.id \in R THEN r.locked_by = w ELSE r \in queue

\* C2: a claim_batch(worker, batch_size, mode) that no other session
\* interferes with returns exactly the first min(batch_size, k) of the k
\* eligible rows (mode matches, unlocked, next_attempt <= now) in (priority,
\* id) order, leaves every returned row locked by the worker and changes no
\* other row. A call that finds nothing changes no variable: the first
\* conjunct says that it finds nothing only when nothing is eligible.
C2_ClaimSelectsFirstK ==
    /\ [](\A b \in BatchSizes, m \in Modes :
             Candidates(queue, m, now, b) = <<>> => ~ \E r \in queue : C2_Due(r, m))
    /\ [][\A w \in Workers :
             /\ \A b \in BatchSizes, m \in Modes :
                   /\ ClaimAtomic(w, b, m) =>
                         /\ C2_FirstK(AtomicReturn(queue, queue', w), m, b)
                         /\ C2_Post(AtomicReturn(queue, queue', w), w)
                   /\ (sess'[w] # sess[w] /\ ClaimSelect(w, b, m)) =>
                         LET ids == sess'[w].ids
                         IN  /\ C2_FirstK(Range(ids), m, b)
                             /\ Cardinality(Range(ids)) = Len(ids)
                             /\ \A j \in 1..Len(ids), k \in 1..Len(ids) :
                                   j < k => \A a \in RowsOf(queue, ids[j]),
                                               c \in RowsOf(queue, ids[k]) :
                                                 C2_Earlier(a, c)
             /\ (ClaimUpdate(w) /\ \A i \in Range(sess[w].ids) :
                                      RowsOf(queue, i) # {} /\ Unlocked(queue, i)) =>
                   C2_Post(Range(sess[w].ids), w)
         ]_vars

\* C2 witness: of two due rows of one mode, a claim of batch size 1 took the
\* one with the lower priority value although its id is the higher.
C2_Witness ==
    \E a \in queue, b \in queue :
        /\ a.mode = b.mode /\ a.id > b.id /\ a.priority < b.priority
        /\ a.locked_by # NULL /\ a.attempts = 0
        /\ b.locked_by = NULL /\ b.attempts = 0 /\ b.next_attempt <= a.locked_at

\* The step is a claim_batch of w that sets the lock of id i.
C3_ClaimLocks(w, i) ==
    \/ AtomicClaimStep(w)
    \/ ClaimUpdate(w) /\ i \in Range(sess[w].ids)

C3_RequeueStep(i) == \E d \in Delays, m \in Msgs : DoRequeue(i, d, m)

C4_EnqueueStep(ids) == \E m \in Modes, p \in Priorities : DoEnqueue(ids, m, p)

\* C4: whatever enqueue calls have run (any mode and priority, repeated or
\* already queued ids, locked or requeued rows), the queue holds at most one
\* row per id.
C4_OneRowPerId == \A i \in Ids : Cardinality(RowsOf(queue, i)) <= 1

\* C4 witness: both ids are queued, in different modes and at different times
\* (so by different enqueue calls), one of them locked.
C4_Witness ==
    \E a \in queue, b \in queue :
        /\ a.id # b.id /\ a.mode = "auth" /\ b.mode = "update"
        /\ a.next_attempt # b.next_attempt /\ a.attempts = 0 /\ b.attempts = 0
        /\ a.locked_by # NULL

\* C5: enqueue_ids returns the number of rows it inserted, that is the number
\* of given ids that had no queue row before the call.
C5_EnqueueReturnsInserted ==
    [][\A ids \in SeqsUpTo(Ids, MaxEnq) : C4_EnqueueStep(ids) =>
          EnqueueReturn(ids) = Cardinality(Range(ids) \ IdsOf(queue))
      ]_vars

C7_CompleteAndSingleReturn ==
    [][/\ \A i \in Ids : DoComplete(i) => RowsOf(queue', i) = {}
       /\ \A w \in Workers :
             /\ AtomicClaimStep(w) =>
                   \A i \in AtomicReturn(queue, queue', w) :
                       \A r \in RowsOf(queue, i) : r.attempts = 0 => r.locked_by = NULL
             /\ ClaimUpdate(w) =>
                   \A i \in Range(sess[w].ids) :
                       \A r \in RowsOf(queue, i) : r.attempts = 0 => r.locked_by = NULL
      ]_vars

\* ========================================================= claims, workers

\* C9: when the update worker handles a claimed id whose unauthenticated fetch
\* classifies as restricted, the queue afterwards holds a row for the id with
\* mode auth, priority 50 and no lock, and no row for it with mode update.
C9_RestrictedEscalates ==
    [][\A w \in Workers, i \in Ids, net \in GuestNets :
          (/\ net.exc = NULL
           /\ classify(net) = "restricted"
           /\ UpdateHandle(w, i, net)) =>
              /\ \E r \in queue' :
                    /\ r.id = i /\ r.mode = "auth" /\ r.priority = 50
                    /\ r.locked_by = NULL
              /\ ~ \E r \in queue' : r.id = i /\ r.mode = "update"
      ]_vars

\* C10: when the auth worker handles a claimed id, a credential is available,
\* the login and the request succeed and the page classifies as public,
\* restricted or unrevealed, the handling leaves the body in the content
\* store, a WorkRecord of that status, one more fetch_log row with that
\* outcome and no queue row for the id.
C10_AuthStoresAndCompletes ==
    [][\A w \in Workers, i \in Ids, net \in Nets :
          (/\ net.exc = NULL /\ net.login_ok
           /\ classify(net) \in {"public", "restricted", "unrevealed"}
           /\ pick(creds, now) # 0
           /\ AuthHandle(w, i, net)) =>
              /\ i \in store'
              /\ \E r \in works' : r.id = i /\ r.status = classify(net)
              /\ Len(fetch_log') = Len(fetch_log) + 1
              /\ fetch_log'[Len(fetch_log')].outcome = classify(net)
              /\ RowsOf(queue', i) = {}
      ]_vars

\* the queue row of i after a requeue at the step's time: kept, unlocked, one
\* more attempt, a later next_attempt
Requeued(i) ==
    /\ RowsOf(queue, i) # {}
    /\ \A r \in RowsOf(queue, i) :
          \E r2 \in RowsOf(queue', i) :
             /\ r2.locked_by = NULL
             /\ r2.attempts = r.attempts + 1
             /\ r2.next_attempt > now

\* the step appended to fetch_log a row of outcome error whose text is msg
LoggedError(i, msg) ==
    /\ Len(fetch_log') > Len(fetch_log)
    /\ \E n \in (Len(fetch_log) + 1)..Len(fetch_log') :
          /\ fetch_log'[n].ao3_id = i
          /\ fetch_log'[n].outcome = "error"
          /\ fetch_log'[n].error = msg

\* C11: when a worker handles a claimed id whose fetch classifies as none of
\* public, restricted, unrevealed, not_found, the id is requeued (row kept,
\* unlocked, attempts + 1, later next_attempt), fetch_log gains an error row
\* naming the unexpected outcome, and no WorkRecord is written.
C11_UnexpectedOutcomeRequeues ==
    [][\A w \in Workers, i \in Ids, net \in Nets :
          (/\ net.exc = NULL /\ net.login_ok
           /\ classify(net) = "error"
           /\ (WorkerMode[w] = "auth" => pick(creds, now) # 0)
           /\ (AuthHandle(w, i, net) \/ UpdateHandle(w, i, net))) =>
              /\ Requeued(i)
              /\ LoggedError(i, "unexpected outcome " \o classify(net))
              /\ works' = works
      ]_vars

\* the fetch or the persistence of id i raises inside the worker's handler
HandlerRaises(w, i, net) ==
    IF WorkerMode[w] = "auth"
    THEN auth_handle_one(Db, w, i, fetch_with_auth(i, creds, now, net).res,
                         now, dialect).raised # NULL
    ELSE \/ fetch_public(i, net).raised # NULL
         \/ Unpack(fetch_public(i, net).value, 5).raised # NULL

\* C12: when the fetch or the persistence of one id of a claimed batch raises,
\* that id is requeued with a backoff (row kept, unlocked, attempts + 1, later
\* next_attempt) and fetch_log gains an error row for it; the queue rows of
\* all other ids are untouched and the other ids of the batch are still to be
\* handled; once the batch is empty the worker is back at claim_batch.
C12_FailureIsolated ==
    [][\A w \in Workers, i \in Ids, net \in Nets :
          (/\ i \in batch[w]
           /\ batch'[w] # batch[w]
           /\ HandlerRaises(w, i, net)
           /\ (AuthHandle(w, i, net) \/ UpdateHandle(w, i, net))) =>
              /\ Requeued(i)
              /\ \E msg \in {"TypeError", "ProgrammingError", "LoginException"}
                            \cup NetExceptions : LoggedError(i, msg)
              /\ \A j \in Ids \ {i} : RowsOf(queue', j) = RowsOf(queue, j)
              /\ batch'[w] = batch[w] \ {i}
              /\ \A v \in Workers \ {w} : batch'[v] = batch[v]
              /\ sess'[w].pc = "idle"
              /\ works' = works
      ]_vars

\* both ids of an update batch failed and were requeued, and the worker has
\* claimed them again on a later turn of its loop
C12_Witness ==
    /\ Len(fetch_log) >= 2
    /\ batch["w2"] = Ids
    /\ \A i \in Ids : \E r \in RowsOf(queue, i) :
          r.attempts = 1 /\ r.locked_by = "w2" /\ r.mode = "update"

\* C13: when pick returns none, fetch_with_auth logs in nowhere (the records
\* are left as they are), raises nothing and returns a result whose err is
\* no-available-credentials; the auth worker's handling of the id then
\* requeues it, writes no blob and no WorkRecord, and the row stays in the
\* queue with mode auth.
C13_NoCredentialRequeues ==
    [][\A w \in Workers, i \in Ids, net \in Nets :
          (/\ pick(creds, now) = 0
           /\ AuthHandle(w, i, net)) =>
              LET f == fetch_with_auth(i, creds, now, net)
              IN  /\ f.creds = creds
                  /\ creds' = creds
                  /\ f.res.raised = NULL
                  /\ f.res.value.fields.err = "no-available-credentials"
                  /\ Requeued(i)
                  /\ store' = store
                  /\ works' = works
                  /\ \A r \in RowsOf(queue', i) : r.mode = "auth"
      ]_vars

\* ==================================================== claims, credentials

\* the records that are not cooling down at time t
C14_Ready(t) == {k \in 1..Len(creds) : creds[k].cooldown_until <= t}

\* C14: in every state of the credential set pick returns none iff no record
\* has cooldown_until <= now, and otherwise returns a record with
\* cooldown_until <= now whose last_used is least among those records.
C14_PickLeastRecentlyUsed ==
    LET k == pick(creds, now)
    IN  /\ k = 0 <=> C14_Ready(now) = {}
        /\ k # 0 =>
              /\ k \in C14_Ready(now)
              /\ \A j \in C14_Ready(now) : creds[k].last_used <= creds[j].last_used

\* pick has returned the second record although the first is available: the
\* first was used more recently
C14_Witness ==
    /\ Len(creds) = 2
    /\ C14_Ready(now) = {1, 2}
    /\ creds[1].last_used > creds[2].last_used
    /\ pick(creds, now) = 2
    /\ picked = creds[2].username

\* C15: no step of the credential manager lowers a record's cooldown_until;
\* mark_rate_limited(u) at time now leaves cooldown_until(u) at least
\* now + COOLDOWN_SECONDS and not below its old value; and while
\* now < cooldown_until(u), pick does not return u.
C15_CooldownMonotone ==
    /\ [](\A k \in 1..Len(creds) :
             now < creds[k].cooldown_until => pick(creds, now) # k)
    /\ [][/\ Len(creds') = Len(creds)
          /\ \A k \in 1..Len(creds) :
                creds'[k].cooldown_until >= creds[k].cooldown_until
          /\ \A u \in Users :
                (creds' # creds /\ MarkRateLimited(u)) =>
                   \A k \in 1..Len(creds) :
                      creds[k].username = u =>
                         /\ creds'[k].cooldown_until >= now + COOLDOWN_SECONDS
                         /\ creds'[k].cooldown_until >= creds[k].cooldown_until
          /\ (picked' # picked /\ Pick) =>
                \A k \in 1..Len(creds) :
                   now < creds[k].cooldown_until => picked' # creds[k].username
      ]_vars

\* a record holds a cooldown longer than mark_rate_limited would set now, the
\* other record is the one pick returned
C15_Witness ==
    /\ Len(creds) = 2
    /\ now > 0
    /\ creds[1].cooldown_until > now + COOLDOWN_SECONDS
    /\ mark_rate_limited(creds, creds[1].username, now) = creds
    /\ picked = creds[2].username
    /\ pick(creds, now) = 2

\* C16: every ensure_session call of a pool thread that has finished has
\* returned, and what it returned is the session cached on the record, so
\* that all calls on one record share one authenticated handle.
C16_OneSharedSession ==
    \A t \in Threads :
       thr[t].pc \in {"returned", "raised"} =>
          /\ thr[t].pc = "returned"
          /\ creds[thr[t].rec].session # NULL
          /\ thr[t].got = creds[thr[t].rec].session

\* ================================================== claims, request layer

\* the number a Retry-After text denotes, when it is the decimal numeral of
\* one of the seconds the remote sends
C18_Numeric(header) ==
    header.present /\ \E n \in RetryAfterSeconds : header.text = Digits(n)

C18_Value(header) == CHOOSE n \in RetryAfterSeconds : header.text = Digits(n)

C19_RateLimitBeforeRetry ==
    (last_call.attempts > 0 /\ last_call.transport = "retrying") =>
       /\ 429 \notin status_forcelist
       /\ last_call.first = 429 =>
             /\ last_call.raised = "RateLimitedException"
             /\ last_call.attempts = 1

\* C20: for each limiter, any Capacity + 1 calls let through in a row span at
\* least Window ticks: no interval of length Window admits more than Capacity.
C20_AtMostCapacityPerWindow ==
    \A l \in Limiters :
       Len(admitted[l]) = Capacity + 1 =>
          admitted[l][Capacity + 1] - admitted[l][1] >= Window

\* C21: the guest limiter loses no token update. Until the clock first
\* advances nothing is refilled, so a full bucket of Capacity tokens lets at
\* most Capacity callers through without sleeping, however the threads of the
\* pool interleave.
C21_NoLostTokenUpdate ==
    mono = 0 => Len(admitted["requester"]) <= Capacity

\* C22: for every proxy at most one thread at a time has a request in
\* progress on the wrapped session, whether it came through proxy.request or
\* through get / post reached through the proxy; and a request in progress on
\* one proxy never keeps the lock of another proxy.
C22_OneRequestPerSession ==
    \A p \in Proxies :
       /\ Cardinality(OnSession(p)) <= 1
       /\ LockHolders(p) \subseteq OnSession(p)
       /\ \A q \in Proxies \ {p} : LockHolders(p) \cap OnSession(q) = {}

\* ========================================================== claims, blocks

\* ceil(n / d) for n >= 0 and d >= 1
CeilDiv(n, d) == CHOOSE k \in 0..n : k * d >= n /\ (k - 1) * d < n

\* what create_blocks_and_enqueue(start, stop, block_size) promises, of the
\* rows the step added to blocks and of the queue it left
C23_Post(start, stop, block_size) ==
    LET new == SubSeq(blocks', Len(blocks) + 1, Len(blocks'))
        n == Len(new)
    IN  /\ n = CeilDiv(stop - start + 1, block_size)
        /\ new[1].start = start
        /\ new[n].stop = stop
        /\ \A k \in 1..n : new[k].start <= new[k].stop
        /\ \A k \in 1..n - 1 :
              /\ new[k + 1].start = new[k].stop + 1
              /\ new[k].stop - new[k].start + 1 = block_size
        /\ \A i \in start..stop : \E r \in queue' : r.id = i

\* C23: for start <= stop and block_size >= 1 create_blocks_and_enqueue adds
\* ceil((stop - start + 1) / block_size) block rows whose ranges are
\* consecutive, disjoint and cover exactly [start, stop], all but the last of
\* block_size ids, and every id of [start, stop] then has a queue row.
C23_BlocksPartitionRange ==
    [][blocks' # blocks =>
        \A start \in BlockIds, stop \in BlockIds, block_size \in BlockSizes :
            (/\ start <= stop
             /\ DoCreateBlocks(start, stop, block_size, "update",
                               DefaultPriority))
                => C23_Post(start, stop, block_size)]_vars

\* 1..3 with block size 2: a full block, a short last block, three queue rows
C23_Witness ==
    /\ Len(blocks) = 2
    /\ <<blocks[1].start, blocks[1].stop>> = <<1, 2>>
    /\ <<blocks[2].start, blocks[2].stop>> = <<3, 3>>
    /\ IdsOf(queue) = 1..3

\* what block_progress returns for block b in the current state
C24_Progress(b) == block_progress(blocks, queue, works, b)

\* the ids of block b that have a queue row
C24_Queued(b) ==
    {i \in blocks[b].start..blocks[b].stop : \E r \in queue : r.id = i}

\* C24: for every existing block, in every state of the queue, block_progress
\* returns done + remaining = total with total = stop - start + 1, remaining
\* the number of ids of the range that have a queue row in any mode, and
\* 0 <= done <= total; a block_progress call changes no table.
C24_ProgressAddsUp ==
    /\ [](\A b \in 1..Len(blocks) :
            LET p == C24_Progress(b)
            IN  /\ p.total = blocks[b].stop - blocks[b].start + 1
                /\ p.remaining = Cardinality(C24_Queued(b))
                /\ p.done + p.remaining = p.total
                /\ 0 <= p.done /\ p.done <= p.total)
    /\ [][last_call' # last_call => UNCHANGED BlockTables]_vars

\* block_progress has returned for a block with ids done, ids remaining and
\* an id escalated to the auth queue
C24_Witness ==
    \E b \in 1..Len(blocks) :
        /\ last_call = C24_Progress(b)
        /\ last_call.done > 0
        /\ last_call.remaining > 0
        /\ \E r \in queue : r.id \in C24_Queued(b) /\ r.mode = "auth"

\* ========================================================= claims, classify

\* a classify_response call has returned
C25_Called == "outcome" \in DOMAIN last_call

\* the first rule that matches, by the labels of the inputs
C25_FirstRule(status_code, login, restricted, unrevealed) ==
    CASE status_code = 404 -> "not_found"
      [] status_code # 404 /\ login -> "restricted"
      [] status_code # 404 /\ ~login /\ restricted -> "restricted"
      [] status_code # 404 /\ ~login /\ ~restricted /\ unrevealed -> "unrevealed"
      [] status_code = 200 /\ ~login /\ ~restricted /\ ~unrevealed -> "public"
      [] status_code \in {401, 403} /\ ~login /\ ~restricted /\ ~unrevealed ->
            "restricted"
      [] OTHER -> "error"

\* C25: classify_response returns the outcome of the first matching rule in
\* the order 404, login page, restriction phrase, content-withheld phrase,
\* 200, 401 / 403, otherwise error; 404 always gives not_found, 200 with the
\* login url gives restricted, and the url argument does not matter.
C25_FirstMatchingRule ==
    C25_Called =>
        LET c == last_call
            f == CHOOSE f \in FinalUrls : f.text = c.final_url
            b == CHOOSE b \in Bodies : b.text = c.text
        IN  /\ c.outcome = C25_FirstRule(c.status_code, f.login, b.restricted,
                                         b.unrevealed)
            /\ c.status_code = 404 => c.outcome = "not_found"
            /\ c.status_code = 200 /\ f.login => c.outcome = "restricted"
            /\ \A url \in ClassifyUrls :
                  classify_response(url, c.status_code, c.text, c.final_url)
                      = c.outcome

\* a 200 page that carries both phrases was classified restricted
C25_Witness ==
    /\ C25_Called
    /\ last_call.status_code = 200
    /\ last_call.final_url = <<"works", "1">>
    /\ Len(last_call.text) = 10
    /\ last_call.text[4] = "unrevealed"
    /\ last_call.outcome = "restricted"

\* ================================================ claims, metadata failure

\* the same answer of the archive with the metadata extraction returning
C26_WithMetadata(net) == [net EXCEPT !.meta_ok = TRUE]

\* the tables and the content store after the step
C26_DbAfter == [queue |-> queue', works |-> works', store |-> store',
                fetch_log |-> fetch_log']

\* what the update worker's handler leaves for a fetch result
C26_Handled(w, i, net) ==
    update_handle_one(Db, w, i, fetch_public(i, net), now, dialect)

\* C26: when the metadata extraction raises after the page was fetched and
\* classified, the fetch still returns a result with the classified outcome,
\* the status, the body and empty metadata; the worker leaves the tables as
\* it would with the metadata present, and the id is not requeued.
C26_ExtractionFailureTolerated ==
    [][batch' # batch =>
        \A w \in Workers, i \in Ids, net \in Nets :
          (/\ net.exc = NULL /\ ~net.meta_ok
           /\ classify(net) = "public"
           /\ UpdateHandle(w, i, net)) =>
              LET fr == fetch_public(i, net)
              IN  /\ fr.raised = NULL
                  /\ fr.value.fields.outcome = classify(net)
                  /\ fr.value.fields.http_status_code = net.status
                  /\ fr.value.fields.html = net.marker
                  /\ fr.value.fields.meta = "{}"
                  /\ C26_DbAfter = C26_Handled(w, i, C26_WithMetadata(net))
                  /\ ~Requeued(i)
      ]_vars

\* ============================================ claims, Requester sessions

\* a Requester.request call on a chosen session has ended
C27_Called == "used" \in DOMAIN last_call

\* C27: a call with force_session uses that very session and leaves it as it
\* was (no adapter mounted, no default header installed), whether the call
\* returned or raised; the Requester mounts its adapters in a call only on a
\* session that was not forced.
C27_ForcedSessionUntouched ==
    C27_Called =>
       /\ last_call.force # NULL =>
             /\ last_call.used = last_call.force
             /\ last_call.after = last_call.before
       /\ last_call.after.installs > last_call.before.installs =>
             /\ last_call.force = NULL
             /\ last_call.after.adapters = "requester"
       /\ (last_call.force = NULL /\ ~last_call.before._ao3_adapters_installed)
             => last_call.after.adapters = "requester"

\* a forced call on the caller's own session failed and left the caller's
\* adapters and headers in place; the session is still unconfigured
C27_Witness ==
    /\ C27_Called
    /\ last_call.force = "s2"
    /\ last_call.end.raised = "NetworkException"
    /\ sessions["s2"] = CallerSession("s2")
    /\ sessions["s1"]._ao3_adapters_installed

\* C28: over any sequence of configure_session, attach_session and
\* non-forced request calls a session has the Requester's adapters mounted
\* at most once, exactly once when it is configured, its default headers
\* installed once, and every header it carried at first still has its value.
C28_ConfigureOnce ==
    \A s \in Sessions :
       /\ sessions[s].installs <= 1
       /\ sessions[s].header_installs <= 1
       /\ sessions[s]._ao3_adapters_installed <=> sessions[s].installs = 1
       /\ sessions[s]._ao3_headers_installed <=> sessions[s].header_installs = 1
       /\ sessions[s]._ao3_adapters_installed =>
             sessions[s].adapters = "requester"
       /\ \A h \in DOMAIN sessions[s].headers :
             CallerSession(s).headers[h] # NULL =>
                sessions[s].headers[h] = CallerSession(s).headers[h]

\* s2 was configured, attached and used by a non-forced call: one install,
\* its own User-Agent kept, the missing Accept header filled in
C28_Witness ==
    /\ C27_Called
    /\ last_call.force = NULL
    /\ last_call.used = "s2"
    /\ last_call.before._ao3_adapters_installed
    /\ sessions["s2"].installs = 1
    /\ sessions["s2"].headers["User-Agent"] = "custom"
    /\ sessions["s2"].headers["Accept"] = "requester"

\* C29: a call whose session raised a transport failure ended by raising
\* NetworkException with the call's url and method and the failure as its
\* cause, and returned no response; no call ends with a transport failure
\* as the exception raised.
C29_TransportFailureWrapped ==
    C27_Called =>
       /\ last_call.answer.fail # NULL =>
             /\ last_call.end.raised = "NetworkException"
             /\ last_call.end.url = last_call.url
             /\ last_call.end.method = last_call.method
             /\ last_call.end.cause = last_call.answer.fail
             /\ ~last_call.end.returned
       /\ last_call.end.raised \notin TransportFailures

\* a POST through the attached, configured session timed out
C29_Witness ==
    /\ C27_Called
    /\ last_call.force = NULL
    /\ last_call.used = "s1"
    /\ last_call.method = "POST"
    /\ last_call.answer.fail = "Timeout"
    /\ last_call.end.raised = "NetworkException"
    /\ last_call.end.cause = "Timeout"

\* ======================================================= claims, fetch log

\* a is an initial part of b
C30_IsPrefix(a, b) == Len(a) <= Len(b) /\ SubSeq(b, 1, Len(a)) = a

\* C30: the fetch log is append-only: no step of the queue API, the block
\* commands or the workers modifies or deletes a fetch_log row; the rows of
\* before are the first rows of after.
C30_LogAppendOnly == [][C30_IsPrefix(fetch_log, fetch_log')]_vars

\* a requeue's row, then a worker's row after it
C30_Witness ==
    /\ Len(fetch_log) >= 2
    /\ fetch_log[1].worker = "system"
    /\ fetch_log[Len(fetch_log)].worker # "system"

\* ================================================ claims, attempts and log

\* worker w's handler takes id i of its batch in this step
C31_Handles(w, i) ==
    /\ i \in batch[w]
    /\ batch' = [batch EXCEPT ![w] = @ \ {i}]

C32_LastAdmitted(l) == admitted[l][Len(admitted[l])]

\* limiter l's last call slept in its throttle: it was admitted later than
\* the time it entered, and the bucket was empty when it was admitted
C32_Slept(l) ==
    /\ admitted[l] # <<>>
    /\ bucket[l].last < C32_LastAdmitted(l)

\* C32: the time a call slept in the throttle is not credited again as
\* refill: the call after one that slept is admitted at least W/C
\* (TicksPerToken) after it.
C32_SleepNotCreditedAgain ==
    [][\A l \in Limiters :
          (admitted'[l] # admitted[l] /\ C32_Slept(l)) =>
              mono' >= C32_LastAdmitted(l) + TicksPerToken]_vars

\* =================================================== claims, worker loops

\* the queue rows locked by worker identity w
C33_LockedBy(w) == {r \in queue : r.locked_by = w}

\* worker w's loop is at its claim_batch call: the last batch is handled and
\* no claim of w is under way
C33_AtClaim(w) == batch[w] = {} /\ sess[w].pc = "idle"

\* C33: whenever a worker loop is at its claim_batch call no queue row is
\* locked by that loop's worker identity, and a worker identity never locks
\* more rows than the batch size.
C33_BatchResolvedBeforeClaim ==
    \A w \in Workers :
        /\ C33_AtClaim(w) => C33_LockedBy(w) = {}
        /\ Cardinality(C33_LockedBy(w)) <= LoopBatch

\* the update worker is back at claim_batch after a failed attempt on an id
\* it had locked, with more eligible rows than the batch size before it
C33_Witness ==
    /\ C33_AtClaim("w2")
    /\ \E r \in queue : r.mode = "update" /\ r.attempts = 1 /\ r.locked_by = NULL
    /\ \E r \in queue : r.mode = "update" /\ r.attempts = 0 /\ r.locked_by = NULL
                        /\ r.next_attempt <= now
    /\ Len(fetch_log) > 0

\* ======================================================= claims, liveness

\* id i has a queue row that is locked
C34_Locked(i) == \E r \in queue : r.id = i /\ r.locked_by # NULL

\* C34: under fair scheduling of the worker threads every queue row that is
\* locked by a claim is eventually deleted or unlocked.
C34_LockedEventuallyResolved ==
    \A i \in Ids : C34_Locked(i) ~> ~C34_Locked(i)

\* a row that was locked has been requeued and is unlocked, its worker back
\* at claim_batch, while the other row is locked
C34_Witness ==
    /\ \E r \in queue : r.attempts > 0 /\ r.locked_by = NULL
    /\ \E r \in queue : r.attempts = 0 /\ r.locked_by # NULL

\* ================================================ claims, enqueue's frame

\* C35: an enqueue leaves every queue row that exists unchanged, whatever the
\* mode and priority it is called with and whether the row is locked: its
\* mode, priority, next_attempt, attempts, locked_by and locked_at keep their
\* values.
C35_EnqueueKeepsRows ==
    [][(\E r \in queue : r \notin queue') =>
          \A ids \in SeqsUpTo(Ids, MaxEnq) : ~C4_EnqueueStep(ids)]_vars

\* a locked update row enqueued at time 0 at another priority, beside an auth
\* row of the default priority enqueued after it
C35_Witness ==
    \E a \in queue, b \in queue :
        /\ a.id # b.id
        /\ a.mode = "update" /\ a.priority = 50 /\ a.locked_by # NULL
        /\ a.next_attempt = 0
        /\ b.mode = "auth" /\ b.priority = DefaultPriority /\ b.next_attempt > 0

\* ================================================== claims, absent rows

\* C36: requeue and complete applied to an id that has no queue row leave the
\* queue as it is: no row is created, and a completed id is not put back by
\* a late requeue.
C36_AbsentRowStaysAbsent ==
    [][\A i \in Ids :
          (RowsOf(queue, i) = {} /\ (C3_RequeueStep(i) \/ DoComplete(i))) =>
              queue' = queue]_vars

\* a requeue with a message has logged its error row for an id that has no
\* queue row, while the other id is queued and locked
C36_Witness ==
    \E i \in Ids :
        /\ RowsOf(queue, i) = {}
        /\ Len(fetch_log) = 1
        /\ fetch_log[1] = LogRow(i, "system", "error", "boom")
        /\ \E r \in queue : r.id # i /\ r.locked_by # NULL /\ r.attempts = 0

\* ========================================================= claims, locks

\* a step of thread t that is inside a call of the pool or of a proxy
C37_MidStep(t) ==
    \/ \E ok \in BOOLEAN : GetOrCreateLogin(t, ok)
    \/ PoolSetToken(t)
    \/ RequestReturn(t)

\* C37: no interleaving of get_or_create, set_token and drop of the pool and
\* set_token and request of the proxies reaches a deadlock: every thread
\* inside a call can take its next step, or waits for a proxy's lock whose
\* holder can take its next step; a thread holding a proxy's lock holds it
\* inside a request and waits for no lock.
C37_NoDeadlock ==
    \A t \in Threads :
        thr[t].pc # "idle" =>
            \/ ENABLED C37_MidStep(t)
            \/ /\ thr[t].pc = "set_token"
               /\ \E t2 \in LockHolders(thr[t].proxy) \ {t} :
                      ENABLED C37_MidStep(t2)

\* one thread holds the pool's lock and waits for the lock of a cached
\* proxy, held by a thread inside a request, while the third thread is
\* inside a request on the other proxy
C37_Witness ==
    \E t1 \in Threads, t2 \in Threads, t3 \in Threads :
        /\ thr[t1].pc = "set_token" /\ thr[t1].op = "set_token"
        /\ thr[t2].pc = "request" /\ thr[t2].proxy = thr[t1].proxy
        /\ thr[t3].pc = "request" /\ thr[t3].proxy # thr[t1].proxy
        /\ by_user = Proxies

\* ====================================================== claims, attempts

\* the requeue calls made for id i: each call of a worker passes a message
\* and leaves one row of worker "system" in the log
C38_Requeues(i) ==
    Cardinality({k \in 1..Len(fetch_log) :
                    fetch_log[k].ao3_id = i /\ fetch_log[k].worker = "system"})

\* C38: the attempts of every queue row equal the number of requeue calls
\* applied to it since it was inserted (enqueue and claim_batch leave attempts
\* alone), and no failed attempt removes a row, whatever its attempts: the id
\* stays queued and is claimed again with no attempt limit.
C38_AttemptsCountRequeues ==
    /\ [](\A r \in queue : r.attempts = C38_Requeues(r.id))
    /\ [][\A r \in queue : RowsOf(queue', r.id) # {}]_vars

\* an id was claimed and has failed a second time, past the bound the queue
\* API's model stops at, and waits unlocked for its next attempt
C38_Witness ==
    \E r \in queue :
        /\ r.attempts > MaxAttempts
        /\ r.locked_by = NULL
        /\ r.next_attempt > now

\* ==================================================== claims, termination

\* the call has returned
C39_Returned == "pc" \in DOMAIN last_call /\ last_call.pc = "returned"

\* C39: create_blocks_and_enqueue terminates for every integer start, stop
\* and block_size: each turn of its loop moves cur forward, so that the loop
\* condition cur <= stop fails after at most stop - start + 1 turns; and a
\* call with start > stop returns an empty list, having created no block and
\* enqueued nothing.
C39_TerminatesAndEmptyRange ==
    /\ [][BlocksIterate => last_call'.cur > last_call.cur]_vars
    /\ []((C39_Returned /\ last_call.start > last_call.stop) =>
             /\ last_call.block_ids = <<>>
             /\ blocks = <<>>
             /\ queue = {})

\* the second half alone: the empty range
C39_EmptyRange ==
    (C39_Returned /\ last_call.start > last_call.stop) =>
        /\ last_call.block_ids = <<>>
        /\ blocks = <<>>
        /\ queue = {}

====
